---- MODULE Spec2Model ----
(***************************************************************************)
(* Query admission and execution core of mcp-server-mysql:                 *)
(* classification, schema extraction, permission evaluation, the           *)
(* connection pool, and the three execution functions executeQuery,        *)
(* executeWriteQuery and executeReadOnlyQuery.                             *)
(*                                                                         *)
(* Every asynchronous call is a task; a task advances by one step per      *)
(* await on the database driver, and tasks interleave at those awaits.     *)
(* Every driver operation may succeed or fail.                             *)
(***************************************************************************)
EXTENDS Integers, Sequences, FiniteSets, TLC

\* ------------------------------------------------------------------ bounds
\* Number of asynchronous calls that may be in flight at the same time.
MaxTasks == 2
\* Pool bound (mcpConfig.mysql.connectionLimit is 10 in the source; scaled
\* down so that callers do queue for a connection).
connectionLimit == 1

Tasks == 1..MaxTasks
ConnIds == 1..connectionLimit

\* ------------------------------------------------------------- vocabulary
Null == "null"
\* A value made of white space only (truthy, but empty once trimmed).
Blank == "blank"
Cats == {"insert", "update", "delete", "ddl"}
DDLTypes == {"create", "alter", "drop", "truncate"}

\* JavaScript values that a permission lookup can yield: the two booleans
\* and a function object inherited from Object.prototype.
JSTrue == "true"
JSFalse == "false"
JSFunction == "function"
ToJS(b) == IF b THEN JSTrue ELSE JSFalse
Truthy(v) == v # JSFalse
IsJSBoolean(v) == v \in {JSTrue, JSFalse}

\* Property names every object literal inherits from Object.prototype
\* (a bounded selection of them).
ObjectPrototypeKeys == {"constructor", "toString"}

\* ------------------------------------------------------------- SQL inputs
\* A submitted SQL text is named. SqlTokens gives the text as its sequence
\* of lexemes: a maximal run of [a-zA-Z0-9_] characters, a run of white
\* space (written " "), a backtick (written BackTick) or one other
\* character. SqlAst is what parser.astify returns for the text;
\* "unparsable" is a text astify rejects (SqlParses is FALSE and there is no
\* AST); what the database does with a text is decided by the database, not
\* by the parser.
BackTick == "BACKTICK"

SqlNames ==
  { "select", "insert_dev", "insert_delete_dev", "use_prod_insert",
    "update_unqualified", "drop_prod", "insert_constructor", "insert_prod",
    "use_dev", "unparsable" }

\* tablesQuery, the text the ListResources handler submits.
tablesQuery == "list_tables"

\* Further texts, given to the schema extractor alone.
ExtractOnlyNames ==
  { "use_dev_select_prod", "select_warehouse", "select_column", "select_decimal",
    "select_quoted", "use_quoted", "update_prod_warehouse", "select_comment_use" }

SqlTokens(q) ==
  CASE q = "select"             -> << "SELECT", " ", "*", " ", "FROM", " ", "users" >>
    [] q = "insert_dev"         -> << "INSERT", " ", "INTO", " ", "dev", ".", "users", " ",
                                      "VALUES", " ", "(", "1", ")" >>
    [] q = "insert_delete_dev"  -> << "INSERT", " ", "INTO", " ", "dev", ".", "a", " ",
                                      "VALUES", " ", "(", "1", ")", ";", " ",
                                      "DELETE", " ", "FROM", " ", "dev", ".", "a" >>
    [] q = "use_prod_insert"    -> << "INSERT", " ", "INTO", " ", "dev", ".", "a", " ",
                                      "VALUES", " ", "(", "1", ")", ";", " ",
                                      "use", " ", "prod" >>
    [] q = "update_unqualified" -> << "UPDATE", " ", "users", " ", "SET", " ", "a", "=", "1" >>
    [] q = "drop_prod"          -> << "DROP", " ", "TABLE", " ", "prod", ".", "users" >>
    [] q = "insert_constructor" -> << "INSERT", " ", "INTO", " ", "constructor", ".", "t", " ",
                                      "VALUES", " ", "(", "1", ")" >>
    [] q = "insert_prod"         -> << "INSERT", " ", "INTO", " ", "prod", ".", "t", " ",
                                       "VALUES", " ", "(", "1", ")" >>
    [] q = "use_dev"             -> << "USE", " ", "dev" >>
    [] q = "unparsable"          -> << "SELEC", " ", "*", " ", "FROM", " ", "x" >>
    [] q = "list_tables"         -> << "SELECT", " ", "table_name", " ", "FROM", " ",
                                       "information_schema", ".", "tables" >>
    [] q = "use_dev_select_prod" -> << "USE", " ", "dev", ";", " ", "SELECT", " ", "*", " ",
                                       "FROM", " ", "prod", ".", "users" >>
    [] q = "select_warehouse"    -> << "SELECT", " ", "*", " ", "FROM", " ", "warehouse", " ",
                                       "WHERE", " ", "id", "=", "1" >>
    [] q = "select_column"       -> << "SELECT", " ", "users", ".", "id", " ", "FROM", " ", "users" >>
    [] q = "select_decimal"      -> << "SELECT", " ", "1", ".", "5" >>
    [] q = "select_quoted"       -> << "SELECT", " ", "*", " ", "FROM", " ",
                                       BackTick, "dev", BackTick, ".", BackTick, "users", BackTick >>
    [] q = "use_quoted"          -> << "Use", " ", BackTick, "prod", BackTick >>
    [] q = "update_prod_warehouse" -> << "UPDATE", " ", "prod", ".", "warehouse", " ",
                                         "SET", " ", "a", "=", "1" >>
    [] q = "select_comment_use"  -> << "SELECT", " ", "*", " ", "FROM", " ", "prod", ".", "users",
                                       " ", "/", "*", " ", "use", " ", "dev", " ", "*", "/" >>

SqlParses(q) == q # "unparsable"

SqlAst(q) ==
  CASE q = "select"             -> << "select" >>
    [] q = "insert_dev"         -> << "insert" >>
    [] q = "insert_delete_dev"  -> << "insert", "delete" >>
    [] q = "use_prod_insert"    -> << "insert", "use" >>
    [] q = "update_unqualified" -> << "update" >>
    [] q = "drop_prod"          -> << "drop" >>
    [] q = "insert_constructor" -> << "insert" >>
    [] q = "insert_prod"        -> << "insert" >>
    [] q = "use_dev"            -> << "use" >>
    [] q = "unparsable"          -> << >>
    [] q = "use_dev_select_prod" -> << "use", "select" >>
    [] q = "update_prod_warehouse" -> << "update" >>
    [] OTHER                     -> << "select" >>

\* ---------------------------------------------------------- configuration
\* env is the process environment as the configuration module reads it once
\* at start-up.
VARIABLES
  env,              \* resolved configuration, fixed at start-up
  poolPromise,      \* "unset" | "resolved" | "rejected"
  conns,            \* the pool's connections and their session state
  connectionQueue,  \* tasks waiting in pool.getConnection(), oldest first
  task,             \* the asynchronous calls in flight
  probe,            \* input and output of a pure-function evaluation
  proc              \* the process: exit code, createPool calls, start-up and signals

vars == << env, poolPromise, conns, connectionQueue, task, probe, proc >>

ALLOW_OPERATION(cat) == env.ALLOW[cat]
SCHEMA_PERMISSIONS(cat) == env.SCHEMA_PERMISSIONS[cat]
MYSQL_DISABLE_READ_ONLY_TRANSACTIONS == env.MYSQL_DISABLE_READ_ONLY_TRANSACTIONS

\* connectionStringConfig.database || process.env.MYSQL_DB, absent or blank.
dbFromEnvOrConnString ==
  IF env.CONNECTION_STRING_DB # Null THEN env.CONNECTION_STRING_DB ELSE env.MYSQL_DB
isMultiDbMode == dbFromEnvOrConnString \in {Null, Blank}
isTestEnvironment == env.TEST

\* ----------------------------------------------------- permission checks
\* `key in obj` of JavaScript: own keys and keys of the prototype chain.
HasProperty(obj, key) == key \in DOMAIN obj \/ key \in ObjectPrototypeKeys

\* obj[key]: the own value, else the inherited member.
GetProperty(obj, key) ==
  IF key \in DOMAIN obj THEN ToJS(obj[key]) ELSE JSFunction

isAllowedForSchema(cat, schema) ==
  IF schema = Null
    THEN ToJS(ALLOW_OPERATION(cat))
    ELSE IF HasProperty(SCHEMA_PERMISSIONS(cat), schema)
           THEN GetProperty(SCHEMA_PERMISSIONS(cat), schema)
           ELSE ToJS(ALLOW_OPERATION(cat))

\* ------------------------------------------------------ schema extraction
\* Lexemes that are not a run of [a-zA-Z0-9_].
Punctuation == {"*", ".", ",", ";", "(", ")", "=", "/", " ", BackTick}
IsIdentifier(t) == t \notin Punctuation
\* The words of the texts above whose last three characters are u, s, e in
\* either case: /USE/i is not anchored at a word boundary.
UseKeywords == {"USE", "use", "Use", "warehouse"}
MinOf(S) == CHOOSE x \in S : \A y \in S : x <= y

\* sql.match(/USE\s+`?([a-zA-Z0-9_]+)`?/i): the leftmost "use", white space,
\* an optional backtick and a name; the name is captured.
useMatch(tokens) ==
  LET Name(i) == IF tokens[i + 2] = BackTick /\ i + 3 <= Len(tokens)
                   THEN tokens[i + 3] ELSE tokens[i + 2]
      I == { i \in 1..(Len(tokens) - 2) :
               /\ tokens[i] \in UseKeywords
               /\ tokens[i + 1] = " "
               /\ IsIdentifier(Name(i)) }
  IN IF I = {} THEN Null ELSE Name(MinOf(I))

\* sql.match(/`?([a-zA-Z0-9_]+)`?\.`?[a-zA-Z0-9_]+`?/i): the leftmost name,
\* optional backtick, dot, optional backtick, name; the first name is captured.
dbTableMatch(tokens) ==
  LET At(i) == IF i <= Len(tokens) THEN tokens[i] ELSE " "
      Dot(i) == IF At(i) = BackTick THEN i + 1 ELSE i
      After(i) == IF At(Dot(i) + 1) = BackTick THEN Dot(i) + 2 ELSE Dot(i) + 1
      I == { i \in 1..Len(tokens) :
               /\ IsIdentifier(tokens[i])
               /\ At(Dot(i + 1)) = "."
               /\ IsIdentifier(At(After(i + 1))) }
  IN IF I = {} THEN Null ELSE tokens[MinOf(I)]

extractSchemaFromQuery(q) ==
  LET defaultSchema == env.MYSQL_DB
  IN IF defaultSchema # Null /\ ~isMultiDbMode
       THEN defaultSchema
       ELSE IF useMatch(SqlTokens(q)) # Null
              THEN useMatch(SqlTokens(q))
              ELSE IF dbTableMatch(SqlTokens(q)) # Null
                     THEN dbTableMatch(SqlTokens(q))
                     ELSE defaultSchema

\* --------------------------------------------------------- classification
getQueryTypes(q) == SqlAst(q)

RangeOf(s) == { s[i] : i \in 1..Len(s) }

isInsertOperation(q) == "insert" \in RangeOf(getQueryTypes(q))
isUpdateOperation(q) == "update" \in RangeOf(getQueryTypes(q))
isDeleteOperation(q) == "delete" \in RangeOf(getQueryTypes(q))
isDDLOperation(q) == RangeOf(getQueryTypes(q)) \cap DDLTypes # {}

\* The categories present among the statement kinds of q.
CatsOf(q) ==
  { cat \in Cats :
      \/ cat = "insert" /\ isInsertOperation(q)
      \/ cat = "update" /\ isUpdateOperation(q)
      \/ cat = "delete" /\ isDeleteOperation(q)
      \/ cat = "ddl" /\ isDDLOperation(q) }

\* The four permission checks of executeReadOnlyQuery, in source order:
\* the first category that is present and whose check is falsy, else Null.
CheckOrder == << "insert", "update", "delete", "ddl" >>
firstDenied(q) ==
  LET schema == extractSchemaFromQuery(q)
      D == { i \in 1..4 : CheckOrder[i] \in CatsOf(q)
                          /\ ~Truthy(isAllowedForSchema(CheckOrder[i], schema)) }
  IN IF D = {} THEN Null ELSE CheckOrder[MinOf(D)]

\* The routing condition that sends the batch to executeWriteQuery.
routesToWrite(q) ==
  LET schema == extractSchemaFromQuery(q)
  IN \E cat \in CatsOf(q) : Truthy(isAllowedForSchema(cat, schema))

\* ------------------------------------------------------------ deployments
NoSchemas == [s \in {} |-> FALSE]
NoOverrides == [cat \in Cats |-> NoSchemas]

\* Permission policies the server is started with.
NothingAllowed ==
  [ALLOW |-> [cat \in Cats |-> FALSE], SCHEMA_PERMISSIONS |-> NoOverrides]
\* inserts allowed globally but not on prod; DDL allowed on dev only
InsertPolicy ==
  [ALLOW |-> [cat \in Cats |-> cat = "insert"],
   SCHEMA_PERMISSIONS |->
     [cat \in Cats |->
        CASE cat = "insert" -> [s \in {"prod"} |-> FALSE]
          [] cat = "ddl"    -> [s \in {"dev"} |-> TRUE]
          [] OTHER          -> NoSchemas]]

Deployment(db, writeMode, disableReadOnly, policy) ==
  [MYSQL_DB |-> db,
   CONNECTION_STRING_DB |-> Null,
   MULTI_DB_WRITE_MODE |-> writeMode,
   MYSQL_DISABLE_READ_ONLY_TRANSACTIONS |-> disableReadOnly,
   TEST |-> FALSE,
   ALLOW |-> policy.ALLOW,
   SCHEMA_PERMISSIONS |-> policy.SCHEMA_PERMISSIONS]

\* The configurations the server is started in: multi-DB mode (MYSQL_DB
\* unset) with and without MULTI_DB_WRITE_MODE, single-DB mode on "shop",
\* and the test environment (NODE_ENV=test or VITEST set), where the
\* configuration module sets MYSQL_DB to "mcp_test_db" when it is unset.
Deployments ==
  { Deployment(Null, FALSE, FALSE, NothingAllowed),
    Deployment(Null, FALSE, TRUE, NothingAllowed),
    Deployment(Null, FALSE, FALSE, InsertPolicy),
    Deployment(Null, TRUE, FALSE, InsertPolicy),
    Deployment("shop", FALSE, FALSE, InsertPolicy),
    Deployment("shop", FALSE, TRUE, NothingAllowed),
    [Deployment("mcp_test_db", FALSE, FALSE, NothingAllowed) EXCEPT !.TEST = TRUE] }

\* ------------------------------------------------------------------ tasks
NoResult == [kind |-> "none", isError |-> FALSE, text |-> ""]
\* Variant: an error envelope that also carries the execution-time item.
Envelope_timedErrors(isError, text) ==
  [kind |-> "envelope", isError |-> isError, text |-> text,
   content |-> << text, "Query execution time" >>]

\* The result envelope { content, isError }: the envelopes built with
\* isError: true have one content item, the message; those built with
\* isError: false have the payload followed by the execution-time item.
\* text is the text of the first content item.
Envelope(isError, text) ==
  [kind |-> "envelope", isError |-> isError, text |-> text,
   content |-> IF isError THEN << text >> ELSE << text, "Query execution time" >>]
Thrown(error) == [kind |-> "throw", isError |-> TRUE, text |-> error]
Rows == [kind |-> "rows", isError |-> FALSE, text |-> "rows"]

IdleTask ==
  [pc |-> "idle", handler |-> "", entry |-> "", fn |-> "", sql |-> "", connection |-> 0,
   error |-> "", trace |-> << >>, result |-> NoResult]

\* A connection of the pool and its session on the server: whether the
\* session is in read-only mode, and whether a transaction the read path
\* began on it is still open.
NoConnection == [state |-> "absent", owner |-> 0, readOnly |-> FALSE,
                 readTransaction |-> FALSE]

NoProbe == [cat |-> "", schema |-> "", result |-> ""]

\* The process has not exited, createPool has not been called, the start-up
\* connection test has not been launched and no signal has been received.
Running == "running"
ExitCode0 == "0"
ExitCode1 == "1"
NoSignals == [sig \in {"SIGINT", "SIGTERM"} |-> "idle"]
\* The handler invocations of each signal that are waiting for pool.end().
MaxDeliveries == 2
NonePending == [sig \in {"SIGINT", "SIGTERM"} |-> 0]

\* Remote mode: the POST /mcp requests, and mcpServer, the one server
\* object the process creates, with the transport it is connected to.
MaxRequests == 3
Requests == 1..MaxRequests
NoRequests == [r \in Requests |-> "none"]
NotConnected == [transport |-> 0]

InitProc == [exit |-> Running, createPoolCalls |-> 0, startup |-> "pending",
             pool |-> "open", signal |-> NoSignals, pendingEnd |-> NonePending,
             mcpServer |-> NotConnected, request |-> NoRequests]

Init ==
  /\ env \in Deployments
  /\ poolPromise = "unset"
  /\ conns = [k \in ConnIds |-> NoConnection]
  /\ connectionQueue = << >>
  /\ task = [c \in Tasks |-> IdleTask]
  /\ probe = NoProbe
  /\ proc = InitProc

\* One operation issued on the task's connection, and whether it succeeded.
Op(name, ok) == << name, ok >>
Log(c, name, ok) == Append(task[c].trace, Op(name, ok))

\* Variant: the read path never sets the session read-only.
afterAcquire_skipsReadOnly(fn) ==
  CASE fn = "read"  -> "r_begin"
    [] fn = "write" -> "w_begin"
    [] fn = "query" -> "q_query"
    [] fn = "startup" -> "s_release"

\* Where a function continues once pool.getConnection() has resolved.
afterAcquire(fn) ==
  CASE fn = "read"  -> IF MYSQL_DISABLE_READ_ONLY_TRANSACTIONS THEN "r_begin" ELSE "r_setReadOnly"
    [] fn = "write" -> "w_begin"
    [] fn = "query" -> "q_query"
    [] fn = "startup" -> "s_release"

\* The task moves to position pc, having issued op with outcome ok.
Step(c, pc, name, ok, error) ==
  task' = [task EXCEPT ![c].pc = pc,
                       ![c].trace = Log(c, name, ok),
                       ![c].error = error]

\* A call that holds no connection settles with result res.
Settle(c, res) ==
  /\ task' = [task EXCEPT ![c].pc = "done", ![c].result = res]
  /\ UNCHANGED << conns, connectionQueue >>

\* Variant: a release that returns the connection to the free list and
\* leaves the pool's waiters in their queue.
release_forgetsWaiters(c, ops, res, session) ==
  LET k == task[c].connection
      mine == [task[c] EXCEPT !.pc = "done", !.result = res, !.connection = 0,
                              !.trace = Append(ops, Op("RELEASE", TRUE))]
  IN /\ conns' = [conns EXCEPT ![k] = [state |-> "free", owner |-> 0,
                                       readOnly |-> session.readOnly,
                                       readTransaction |-> session.readTransaction]]
     /\ task' = [task EXCEPT ![c] = mine]
     /\ UNCHANGED connectionQueue

\* connection.release() in the finally block, then the call settles with
\* res. The pool hands a released connection to its oldest waiter, if any.
release(c, ops, res, session) ==
  LET k == task[c].connection
      mine == [task[c] EXCEPT !.pc = "done", !.result = res, !.connection = 0,
                              !.trace = Append(ops, Op("RELEASE", TRUE))]
  IN IF connectionQueue = << >>
       THEN /\ conns' = [conns EXCEPT ![k] = [state |-> "free", owner |-> 0,
                                              readOnly |-> session.readOnly,
                                              readTransaction |-> session.readTransaction]]
            /\ task' = [task EXCEPT ![c] = mine]
            /\ UNCHANGED connectionQueue
       ELSE LET w == Head(connectionQueue)
            IN /\ conns' = [conns EXCEPT ![k] = [state |-> "busy", owner |-> w,
                                                 readOnly |-> session.readOnly,
                                                 readTransaction |-> session.readTransaction]]
               /\ connectionQueue' = Tail(connectionQueue)
               /\ task' = [task EXCEPT ![c] = mine,
                                       ![w].pc = afterAcquire(task[w].fn),
                                       ![w].connection = k,
                                       ![w].trace = Append(task[w].trace, Op("ACQUIRE", TRUE))]

\* The last operation of a call, name with outcome ok, then the release.
releaseAndSettle(c, name, ok, res, session) ==
  release(c, Log(c, name, ok), res, session)

SessionReadOnly(c) == conns[task[c].connection].readOnly

\* The session of the connection call c holds, as the call leaves it.
Session(c) ==
  [readOnly |-> conns[task[c].connection].readOnly,
   readTransaction |-> conns[task[c].connection].readTransaction]

\* ROLLBACK (and COMMIT) end the transaction open on the session when they
\* succeed; one that is rejected has ended nothing.
afterRollback(session, ok) ==
  IF ok THEN [session EXCEPT !.readTransaction = FALSE] ELSE session

\* The session of the connection of call c becomes session; the call keeps
\* the connection.
keepWith(c, session) ==
  /\ conns' = [conns EXCEPT ![task[c].connection].readOnly = session.readOnly,
                            ![task[c].connection].readTransaction = session.readTransaction]
  /\ UNCHANGED connectionQueue

\* ------------------------------------------------------------------- pool
\* Variant: getPool without the poolPromise test, a pool per call.
getPool_recreates(created) ==
  [promise |-> IF created THEN "resolved" ELSE "rejected", createPool |-> 1]

\* getPool(): the first call runs mysql2.createPool, which returns the pool
\* or throws; every call returns the one poolPromise, so a rejection is kept.
\* created is the outcome createPool has if this call is the one to run it;
\* createPool tells how many times this call has invoked mysql2.createPool.
getPool(created) ==
  IF poolPromise = "unset"
    THEN [promise |-> IF created THEN "resolved" ELSE "rejected", createPool |-> 1]
    ELSE [promise |-> poolPromise, createPool |-> 0]

\* The replies of a function whose catch block runs with no connection held:
\* executeWriteQuery answers with an envelope, the other two rethrow.
failedBeforeAcquire(fn, error) ==
  IF fn = "write" THEN Envelope(TRUE, "Database connection error")
                  ELSE Thrown(error)

\* `const pool = await getPool()` at the head of each of the three functions:
\* task record t either goes on to pool.getConnection() or settles.
awaitPool(c, t, created) ==
  /\ poolPromise' = getPool(created).promise
  /\ proc' = [proc EXCEPT !.createPoolCalls = @ + getPool(created).createPool,
                          !.startup = IF t.fn = "startup" THEN "started" ELSE @]
  /\ IF poolPromise' = "resolved"
       THEN task' = [task EXCEPT ![c] = [t EXCEPT !.pc = "getConnection"]]
       ELSE task' = [task EXCEPT ![c] =
                       [t EXCEPT !.pc = "done",
                                 !.result = failedBeforeAcquire(t.fn, "PoolError")]]

\* A settled call is received by its caller before any other database event
\* is handled (promise continuations run before the next I/O callback); a
\* process that has exited handles nothing.
NoneSettled == proc.exit = Running /\ \A d \in Tasks : task[d].pc # "done"

\* A new call takes the lowest idle task slot (slots are interchangeable).
CanStart(c) ==
  /\ NoneSettled
  /\ task[c].pc = "idle"
  /\ \A d \in Tasks : d < c => task[d].pc # "idle"

FreeConns == { k \in ConnIds : conns[k].state = "free" }
AbsentConns == { k \in ConnIds : conns[k].state = "absent" }

\* Variant: a pool that hands out a connection that is in use.
GetConnection_handsOutBusy(c) ==
  /\ NoneSettled
  /\ task[c].pc = "getConnection"
  /\ \/ \* resolved with a connection
        /\ proc.pool = "open"
        /\ \E k \in (IF FreeConns # {} THEN FreeConns ELSE ConnIds) :
             /\ conns' = [conns EXCEPT ![k].state = "busy", ![k].owner = c]
             /\ task' = [task EXCEPT ![c].pc = afterAcquire(task[c].fn),
                                     ![c].connection = k,
                                     ![c].trace = Log(c, "ACQUIRE", TRUE)]
        /\ UNCHANGED connectionQueue
     \/ \* every connection is in use: wait in the pool's queue
        /\ proc.pool = "open"
        /\ FreeConns = {} /\ AbsentConns = {}
        /\ connectionQueue' = Append(connectionQueue, c)
        /\ task' = [task EXCEPT ![c].pc = "waiting"]
        /\ UNCHANGED conns
     \/ \* opening a new connection is rejected, or the pool has been
        \* closed: the catch block of the running function, no connection held
        /\ (FreeConns = {} /\ AbsentConns # {}) \/ proc.pool # "open"
        /\ Settle(c, failedBeforeAcquire(task[c].fn, "AcquireError"))
  /\ UNCHANGED << env, poolPromise, probe, proc >>

\* pool.getConnection(): a free connection, else a new one while the pool is
\* below its bound (which may fail), else the caller queues without limit
\* and without time-out (waitForConnections and queueLimit are left at the
\* driver's defaults).
GetConnection(c) ==
  /\ NoneSettled
  /\ task[c].pc = "getConnection"
  /\ \/ \* resolved with a connection
        /\ proc.pool = "open"
        /\ \E k \in (IF FreeConns # {} THEN FreeConns ELSE AbsentConns) :
             /\ conns' = [conns EXCEPT ![k].state = "busy", ![k].owner = c]
             /\ task' = [task EXCEPT ![c].pc = afterAcquire(task[c].fn),
                                     ![c].connection = k,
                                     ![c].trace = Log(c, "ACQUIRE", TRUE)]
        /\ UNCHANGED connectionQueue
     \/ \* every connection is in use: wait in the pool's queue
        /\ proc.pool = "open"
        /\ FreeConns = {} /\ AbsentConns = {}
        /\ connectionQueue' = Append(connectionQueue, c)
        /\ task' = [task EXCEPT ![c].pc = "waiting"]
        /\ UNCHANGED conns
     \/ \* opening a new connection is rejected, or the pool has been
        \* closed: the catch block of the running function, no connection held
        /\ (FreeConns = {} /\ AbsentConns # {}) \/ proc.pool # "open"
        /\ Settle(c, failedBeforeAcquire(task[c].fn, "AcquireError"))
  /\ UNCHANGED << env, poolPromise, probe, proc >>

\* ----------------------------------------------------------- executeQuery
CallExecuteQuery(c) ==
  /\ CanStart(c)
  /\ \E created \in BOOLEAN :
       awaitPool(c, [IdleTask EXCEPT !.handler = "ReadResource",
                                     !.entry = "executeQuery", !.fn = "query",
                                     !.sql = "select"], created)
  /\ UNCHANGED << env, conns, connectionQueue, probe >>

QueryRun(c) ==
  /\ NoneSettled
  /\ task[c].pc = "q_query"
  /\ \E ok \in BOOLEAN :
       releaseAndSettle(c, "QUERY", ok,
                        IF ok THEN Rows ELSE Thrown("QueryError"),
                        Session(c))
  /\ UNCHANGED << env, poolPromise, probe, proc >>

\* ------------------------------------------------------ executeWriteQuery
\* A direct call of the exported function: it classifies nothing before it
\* executes, so it accepts texts the parser rejects.
DirectWriteSql == {"insert_dev", "select", "unparsable"}

CallExecuteWriteQuery(c) ==
  /\ CanStart(c)
  /\ \E q \in DirectWriteSql, created \in BOOLEAN :
       awaitPool(c, [IdleTask EXCEPT !.handler = "direct",
                                     !.entry = "executeWriteQuery", !.fn = "write",
                                     !.sql = q], created)
  /\ UNCHANGED << env, conns, connectionQueue, probe >>

\* The summary line of a successful write, by operation type.
writeSummary(q) ==
  IF isInsertOperation(q) THEN "Insert successful"
  ELSE IF isUpdateOperation(q) THEN "Update successful"
  ELSE IF isDeleteOperation(q) THEN "Delete successful"
  ELSE IF isDDLOperation(q) THEN "DDL operation successful"
  ELSE "rows"

\* connection.beginTransaction(), outside the inner try block. START
\* TRANSACTION commits a transaction left open on the session, so none begun
\* by the read path is open afterwards.
WriteBegin(c) ==
  /\ NoneSettled
  /\ task[c].pc = "w_begin"
  /\ \E ok \in BOOLEAN :
       IF ok
         THEN /\ Step(c, "w_query", "BEGIN", TRUE, "")
              /\ keepWith(c, [Session(c) EXCEPT !.readTransaction = FALSE])
         ELSE releaseAndSettle(c, "BEGIN", FALSE,
                               Envelope(TRUE, "Database connection error"),
                               Session(c))
  /\ UNCHANGED << env, poolPromise, probe, proc >>

\* Variant: a failed statement is answered without a rollback.
WriteQuery_noRollback(c) ==
  /\ NoneSettled
  /\ task[c].pc = "w_query"
  /\ \E ok \in BOOLEAN :
       IF ok
         THEN /\ Step(c, "w_commit", "EXEC", TRUE, "")
              /\ UNCHANGED << conns, connectionQueue >>
         ELSE releaseAndSettle(c, "EXEC", FALSE,
                               Envelope(TRUE, "Error executing write operation"),
                               Session(c))
  /\ UNCHANGED << env, poolPromise, probe, proc >>

WriteQuery(c) ==
  /\ NoneSettled
  /\ task[c].pc = "w_query"
  /\ \E ok \in BOOLEAN :
       /\ IF ok THEN Step(c, "w_commit", "EXEC", TRUE, "")
                ELSE Step(c, "w_rollback", "EXEC", FALSE, "ExecError")
       /\ UNCHANGED << conns, connectionQueue >>
  /\ UNCHANGED << env, poolPromise, probe, proc >>

\* connection.commit(), then the response is formatted from getQueryTypes(sql);
\* a throw from either lands in the inner catch block.
WriteCommit(c) ==
  /\ NoneSettled
  /\ task[c].pc = "w_commit"
  /\ \E ok \in BOOLEAN :
       IF ~ok
         THEN /\ Step(c, "w_rollback", "COMMIT", FALSE, "CommitError")
              /\ UNCHANGED << conns, connectionQueue >>
         ELSE IF ~SqlParses(task[c].sql)
                THEN /\ Step(c, "w_rollback", "COMMIT", TRUE, "Parsing failed")
                     /\ UNCHANGED << conns, connectionQueue >>
                ELSE releaseAndSettle(c, "COMMIT", TRUE,
                                      Envelope(FALSE, writeSummary(task[c].sql)),
                                      Session(c))
  /\ UNCHANGED << env, poolPromise, probe, proc >>

\* Variant: there is no outer catch block, a rollback that throws propagates.
WriteRollback_throws(c) ==
  /\ NoneSettled
  /\ task[c].pc = "w_rollback"
  /\ \E ok \in BOOLEAN :
       releaseAndSettle(c, "ROLLBACK", ok,
                        IF ok THEN Envelope(TRUE, "Error executing write operation")
                              ELSE Thrown("RollbackError"),
                        Session(c))
  /\ UNCHANGED << env, poolPromise, probe, proc >>

\* The inner catch block: connection.rollback(), then the error envelope; a
\* rollback that throws lands in the outer catch block.
WriteRollback(c) ==
  /\ NoneSettled
  /\ task[c].pc = "w_rollback"
  /\ \E ok \in BOOLEAN :
       releaseAndSettle(c, "ROLLBACK", ok,
                        IF ok THEN Envelope(TRUE, "Error executing write operation")
                              ELSE Envelope(TRUE, "Database connection error"),
                        Session(c))
  /\ UNCHANGED << env, poolPromise, probe, proc >>

\* --------------------------------------------------- executeReadOnlyQuery
\* Variant: the pool is obtained before the text is classified.
CallExecuteReadOnlyQuery_poolFirst(c) ==
  /\ CanStart(c)
  /\ \E h \in {"CallTool", "ListResources"}, q \in SqlNames \cup {tablesQuery},
        created \in BOOLEAN :
       /\ (h = "ListResources") <=> (q = tablesQuery)
       /\ LET t == [IdleTask EXCEPT !.handler = h, !.entry = "executeReadOnlyQuery",
                                    !.fn = "read", !.sql = q]
          IN IF ~SqlParses(q)
               THEN /\ task' = [task EXCEPT ![c] = [t EXCEPT !.pc = "done",
                                                             !.result = Thrown("Parsing failed")]]
                    /\ poolPromise' = getPool(created).promise
                    /\ proc' = [proc EXCEPT !.createPoolCalls = @ + getPool(created).createPool]
               ELSE IF firstDenied(q) # Null
                      THEN /\ task' = [task EXCEPT ![c] =
                                         [t EXCEPT !.pc = "done",
                                                   !.result = Envelope(TRUE, firstDenied(q))]]
                           /\ UNCHANGED << poolPromise, proc >>
                      ELSE IF routesToWrite(q)
                             THEN \* return executeWriteQuery(sql)
                                  awaitPool(c, [t EXCEPT !.fn = "write"], created)
                             ELSE awaitPool(c, t, created)
  /\ UNCHANGED << env, conns, connectionQueue, probe >>

\* The part before the first database await: classification, schema
\* extraction, the four permission checks and the routing decision.
CallExecuteReadOnlyQuery(c) ==
  /\ CanStart(c)
  /\ \E h \in {"CallTool", "ListResources"}, q \in SqlNames \cup {tablesQuery},
        created \in BOOLEAN :
       /\ (h = "ListResources") <=> (q = tablesQuery)
       /\ LET t == [IdleTask EXCEPT !.handler = h, !.entry = "executeReadOnlyQuery",
                                    !.fn = "read", !.sql = q]
          IN IF ~SqlParses(q)
               THEN \* getQueryTypes throws; the outer catch block rethrows
                    /\ task' = [task EXCEPT ![c] = [t EXCEPT !.pc = "done",
                                                             !.result = Thrown("Parsing failed")]]
                    /\ UNCHANGED << poolPromise, proc >>
               ELSE IF firstDenied(q) # Null
                      THEN /\ task' = [task EXCEPT ![c] =
                                         [t EXCEPT !.pc = "done",
                                                   !.result = Envelope(TRUE, firstDenied(q))]]
                           /\ UNCHANGED << poolPromise, proc >>
                      ELSE IF routesToWrite(q)
                             THEN \* return executeWriteQuery(sql)
                                  awaitPool(c, [t EXCEPT !.fn = "write"], created)
                             ELSE awaitPool(c, t, created)
  /\ UNCHANGED << env, conns, connectionQueue, probe >>

\* The outer catch block is entered with the error that was thrown.
toOuterCatch(c, name, error) ==
  /\ Step(c, "r_cleanupRollback", name, FALSE, error)
  /\ UNCHANGED << conns, connectionQueue >>

\* The inner catch block is entered with the error that was thrown inside
\* the inner try block.
toInnerCatch(c, name, error) ==
  /\ Step(c, "r_catchRollback", name, FALSE, error)
  /\ UNCHANGED << conns, connectionQueue >>

ReadSetReadOnly(c) ==
  /\ NoneSettled
  /\ task[c].pc = "r_setReadOnly"
  /\ \E ok \in BOOLEAN :
       IF ok
         THEN /\ Step(c, "r_begin", "SET_READ_ONLY", TRUE, "")
              /\ conns' = [conns EXCEPT ![task[c].connection].readOnly = TRUE]
              /\ UNCHANGED connectionQueue
         ELSE toOuterCatch(c, "SET_READ_ONLY", "SetReadOnlyError")
  /\ UNCHANGED << env, poolPromise, probe, proc >>

\* connection.beginTransaction() on the read path: the transaction the
\* statement runs in is open on the session from here on.
ReadBegin(c) ==
  /\ NoneSettled
  /\ task[c].pc = "r_begin"
  /\ \E ok \in BOOLEAN :
       IF ok
         THEN /\ Step(c, "r_query", "BEGIN", TRUE, "")
              /\ keepWith(c, [Session(c) EXCEPT !.readTransaction = TRUE])
         ELSE toOuterCatch(c, "BEGIN", "BeginError")
  /\ UNCHANGED << env, poolPromise, probe, proc >>

ReadQuery(c) ==
  /\ NoneSettled
  /\ task[c].pc = "r_query"
  /\ \E ok \in BOOLEAN :
       IF ok THEN Step(c, "r_rollback", "EXEC", TRUE, "")
             ELSE Step(c, "r_catchRollback", "EXEC", FALSE, "ExecError")
  /\ UNCHANGED << env, poolPromise, conns, connectionQueue, probe, proc >>

\* The rollback after a successful statement, inside the inner try block: a
\* rollback that throws is caught by the inner catch block.
ReadRollback(c) ==
  /\ NoneSettled
  /\ task[c].pc = "r_rollback"
  /\ \E ok \in BOOLEAN :
       IF ~ok
         THEN toInnerCatch(c, "ROLLBACK", "RollbackError")
         ELSE IF MYSQL_DISABLE_READ_ONLY_TRANSACTIONS
                THEN releaseAndSettle(c, "ROLLBACK", TRUE, Envelope(FALSE, "rows"),
                                      afterRollback(Session(c), TRUE))
                ELSE /\ Step(c, "r_setReadWrite", "ROLLBACK", TRUE, "")
                     /\ keepWith(c, afterRollback(Session(c), TRUE))
  /\ UNCHANGED << env, poolPromise, probe, proc >>

\* The session reset after the rollback, also inside the inner try block.
ReadSetReadWrite(c) ==
  /\ NoneSettled
  /\ task[c].pc = "r_setReadWrite"
  /\ \E ok \in BOOLEAN :
       IF ok
         THEN releaseAndSettle(c, "SET_READ_WRITE", TRUE, Envelope(FALSE, "rows"),
                               [Session(c) EXCEPT !.readOnly = FALSE])
         ELSE toInnerCatch(c, "SET_READ_WRITE", "SetReadWriteError")
  /\ UNCHANGED << env, poolPromise, probe, proc >>

\* The inner catch block: rollback, then rethrow the error it caught (the
\* statement's, the rollback's or the session reset's); a rollback that
\* throws here replaces it.
ReadCatchRollback(c) ==
  /\ NoneSettled
  /\ task[c].pc = "r_catchRollback"
  /\ \E ok \in BOOLEAN :
       /\ Step(c, "r_cleanupRollback", "ROLLBACK", ok,
               IF ok THEN task[c].error ELSE "RollbackError")
       /\ keepWith(c, afterRollback(Session(c), ok))
  /\ UNCHANGED << env, poolPromise, probe, proc >>

\* Variant: the connection is released inside the cleanup try, after the
\* rollback, so a rollback that throws skips the release.
ReadCleanupRollback_leaks(c) ==
  /\ NoneSettled
  /\ task[c].pc = "r_cleanupRollback"
  /\ \E ok \in BOOLEAN :
       IF ok /\ ~MYSQL_DISABLE_READ_ONLY_TRANSACTIONS
         THEN /\ Step(c, "r_cleanupSetReadWrite", "ROLLBACK", TRUE, task[c].error)
              /\ keepWith(c, afterRollback(Session(c), TRUE))
         ELSE IF ok
                THEN releaseAndSettle(c, "ROLLBACK", TRUE, Thrown(task[c].error),
                                      afterRollback(Session(c), TRUE))
                ELSE /\ task' = [task EXCEPT ![c].pc = "done",
                                             ![c].trace = Log(c, "ROLLBACK", FALSE),
                                             ![c].result = Thrown(task[c].error)]
                     /\ UNCHANGED << conns, connectionQueue >>
  /\ UNCHANGED << env, poolPromise, probe, proc >>

\* The outer catch block: rollback, then the session reset, both inside one
\* try whose failure is logged and ignored; then the error is rethrown.
ReadCleanupRollback(c) ==
  /\ NoneSettled
  /\ task[c].pc = "r_cleanupRollback"
  /\ \E ok \in BOOLEAN :
       IF ok /\ ~MYSQL_DISABLE_READ_ONLY_TRANSACTIONS
         THEN /\ Step(c, "r_cleanupSetReadWrite", "ROLLBACK", TRUE, task[c].error)
              /\ keepWith(c, afterRollback(Session(c), TRUE))
         ELSE releaseAndSettle(c, "ROLLBACK", ok, Thrown(task[c].error),
                               afterRollback(Session(c), ok))
  /\ UNCHANGED << env, poolPromise, probe, proc >>

ReadCleanupSetReadWrite(c) ==
  /\ NoneSettled
  /\ task[c].pc = "r_cleanupSetReadWrite"
  /\ \E ok \in BOOLEAN :
       releaseAndSettle(c, "SET_READ_WRITE", ok, Thrown(task[c].error),
                        IF ok THEN [Session(c) EXCEPT !.readOnly = FALSE] ELSE Session(c))
  /\ UNCHANGED << env, poolPromise, probe, proc >>

\* ---------------------------------------------------------- start-up test
\* The connection test launched when the server is created: getPool(),
\* pool.getConnection(), connection.release().
Void == [kind |-> "void", isError |-> FALSE, text |-> ""]

CallStartupProbe(c) ==
  /\ CanStart(c)
  /\ proc.startup = "pending"
  /\ \E created \in BOOLEAN :
       awaitPool(c, [IdleTask EXCEPT !.handler = "startup", !.entry = "startupProbe",
                                     !.fn = "startup"], created)
  /\ UNCHANGED << env, conns, connectionQueue, probe >>

StartupRelease(c) ==
  /\ NoneSettled
  /\ task[c].pc = "s_release"
  /\ release(c, task[c].trace, Void, Session(c))
  /\ UNCHANGED << env, poolPromise, probe, proc >>

\* --------------------------------------------------------------- handlers
\* The CallTool handler is asked for a tool other than mysql_query: it
\* throws inside its own try block and calls no query function.
CallToolUnknown(c) ==
  /\ CanStart(c)
  /\ task' = [task EXCEPT ![c] = [IdleTask EXCEPT !.handler = "CallTool", !.pc = "done",
                                                  !.result = Thrown("Unknown tool")]]
  /\ UNCHANGED << env, poolPromise, conns, connectionQueue, probe, proc >>

\* Variant: the CallTool handler rethrows like the resource handlers.
handlerResponse_rethrows(handler, res) ==
  CASE handler = "ListResources" ->
         IF res.kind = "throw" THEN res
         ELSE [kind |-> "resources", isError |-> FALSE, text |-> res.text]
    [] handler = "ReadResource" ->
         IF res.kind = "throw" THEN res
         ELSE [kind |-> "contents", isError |-> FALSE, text |-> res.text]
    [] OTHER -> res

\* What a handler answers its client with, given what its try block
\* produced: the CallTool handler turns an exception into an error envelope,
\* the two resource handlers log and rethrow, the start-up test answers
\* nobody, and a direct caller gets what the function returned or threw.
handlerResponse(handler, res) ==
  CASE handler = "CallTool" ->
         IF res.kind = "throw" THEN Envelope(TRUE, res.text) ELSE res
    [] handler = "ListResources" ->
         IF res.kind = "throw" THEN res
         ELSE [kind |-> "resources", isError |-> FALSE, text |-> res.text]
    [] handler = "ReadResource" ->
         IF res.kind = "throw" THEN res
         ELSE [kind |-> "contents", isError |-> FALSE, text |-> res.text]
    [] OTHER -> res

\* Variant: safeExit without the test-environment exemption.
safeExit_always(code) == [proc EXCEPT !.exit = code]

\* safeExit(code): process.exit(code), except in the test environment.
safeExit(code) ==
  IF isTestEnvironment THEN proc ELSE [proc EXCEPT !.exit = code]

\* The process state after the handler's continuation has run on res.
handlerExit(handler, res) ==
  IF handler = "startup" /\ res.kind = "throw" THEN safeExit(ExitCode1) ELSE proc

\* The continuation of the caller runs on the result or the exception of a
\* settled call.
Deliver(c) ==
  /\ proc.exit = Running
  /\ task[c].pc = "done"
  /\ task' = [task EXCEPT ![c] = IdleTask]
  /\ proc' = handlerExit(task[c].handler, task[c].result)
  /\ UNCHANGED << env, poolPromise, conns, connectionQueue, probe >>

Next ==
  \E c \in Tasks :
    \/ CallExecuteQuery(c)
    \/ CallExecuteWriteQuery(c)
    \/ CallExecuteReadOnlyQuery(c)
    \/ CallToolUnknown(c)
    \/ CallStartupProbe(c)
    \/ StartupRelease(c)
    \/ GetConnection(c)
    \/ QueryRun(c)
    \/ WriteBegin(c)
    \/ WriteQuery(c)
    \/ WriteCommit(c)
    \/ WriteRollback(c)
    \/ ReadSetReadOnly(c)
    \/ ReadBegin(c)
    \/ ReadQuery(c)
    \/ ReadRollback(c)
    \/ ReadSetReadWrite(c)
    \/ ReadCatchRollback(c)
    \/ ReadCleanupRollback(c)
    \/ ReadCleanupSetReadWrite(c)
    \/ Deliver(c)

Spec == Init /\ [][Next]_vars

\* ---------------------------------------------------------- shutdown
Signals == {"SIGINT", "SIGTERM"}

\* Variant: a handler that starts pool.end() and exits without awaiting it.
OnSignal_exitsAtOnce(sig) ==
  /\ NoneSettled
  /\ proc.pendingEnd[sig] < MaxDeliveries
  /\ proc' = CASE poolPromise = "unset" ->
                   [proc EXCEPT !.signal[sig] = "skipped", !.exit = ExitCode0]
              [] poolPromise = "rejected" ->
                   [safeExit(ExitCode1) EXCEPT !.signal[sig] = "failed"]
              [] OTHER ->
                   [proc EXCEPT !.signal[sig] = "ended", !.exit = ExitCode0,
                                !.pool = IF @ = "open" THEN "closing" ELSE @]
  /\ UNCHANGED << env, poolPromise, conns, connectionQueue, task, probe >>

\* The SIGINT/SIGTERM handler up to its first wait. It is registered with
\* process.on, so it runs at every delivery of the signal, also while an
\* earlier invocation waits and after one has failed. shutdown() tests
\* poolPromise: unset, it returns and the handler calls process.exit(0);
\* rejected, `await poolPromise` throws, shutdown rethrows and the handler
\* calls safeExit(1); resolved, pool.end() is called (the pool refuses new
\* requests from then on) and the handler waits for it.
OnSignal(sig) ==
  /\ NoneSettled
  /\ proc.pendingEnd[sig] < MaxDeliveries
  /\ proc' = CASE poolPromise = "unset" ->
                   [proc EXCEPT !.signal[sig] = "skipped", !.exit = ExitCode0]
              [] poolPromise = "rejected" ->
                   [safeExit(ExitCode1) EXCEPT !.signal[sig] = "failed"]
              [] OTHER ->
                   [proc EXCEPT !.signal[sig] = "ending",
                                !.pendingEnd[sig] = @ + 1,
                                !.pool = IF @ = "open" THEN "closing" ELSE @]
  /\ UNCHANGED << env, poolPromise, conns, connectionQueue, task, probe >>

\* The pool.end() of one waiting invocation of the handler settles:
\* resolved, the handler calls process.exit(0); rejected, shutdown rethrows
\* and the handler calls safeExit(1).
PoolEndSettles(sig) ==
  /\ NoneSettled
  /\ proc.pendingEnd[sig] > 0
  /\ \E ok \in BOOLEAN :
       proc' = IF ok
                 THEN [proc EXCEPT !.signal[sig] = "ended", !.pool = "closed",
                                   !.pendingEnd[sig] = @ - 1,
                                   !.exit = ExitCode0]
                 ELSE [safeExit(ExitCode1) EXCEPT !.signal[sig] = "failed",
                                                  !.pendingEnd[sig] = @ - 1]
  /\ UNCHANGED << env, poolPromise, conns, connectionQueue, task, probe >>

\* process.on("uncaughtException") and process.on("unhandledRejection"): an
\* exception no caller caught, or a promise rejected with no handler
\* attached, reaches the process; either listener logs it and calls
\* safeExit(1).
ProcessErrorEvents == {"uncaughtException", "unhandledRejection"}
OnProcessError(event) ==
  /\ NoneSettled
  /\ event \in ProcessErrorEvents
  /\ proc' = safeExit(ExitCode1)
  /\ UNCHANGED << env, poolPromise, conns, connectionQueue, task, probe >>

\* The server with its start-up test, resource reads in flight, the two
\* signal handlers and the two listeners for stray errors.
NextShutdown ==
  \/ \E c \in Tasks :
       \/ CallStartupProbe(c)
       \/ StartupRelease(c)
       \/ CallExecuteQuery(c)
       \/ QueryRun(c)
       \/ GetConnection(c)
       \/ Deliver(c)
  \/ \E sig \in Signals :
       \/ OnSignal(sig)
       \/ PoolEndSettles(sig)
  \/ \E event \in ProcessErrorEvents : OnProcessError(event)

SpecShutdown == Init /\ [][NextShutdown]_vars

\* ------------------------------------------------------ fair scheduling
\* What the database and the event loop do for call c once it is under way:
\* an operation it has issued returns, its place in the pool's queue is
\* served, its settled promise is received.
Proceed(c) ==
  \/ StartupRelease(c)
  \/ GetConnection(c)
  \/ QueryRun(c)
  \/ WriteBegin(c)
  \/ WriteQuery(c)
  \/ WriteCommit(c)
  \/ WriteRollback(c)
  \/ ReadSetReadOnly(c)
  \/ ReadBegin(c)
  \/ ReadQuery(c)
  \/ ReadRollback(c)
  \/ ReadSetReadWrite(c)
  \/ ReadCatchRollback(c)
  \/ ReadCleanupRollback(c)
  \/ ReadCleanupSetReadWrite(c)

\* Every database operation returns and its callback, once queued in the
\* event loop, is run: promise continuations of other calls go first each
\* time but cannot postpone it for ever (strong fairness); a settled call is
\* received by its caller (weak fairness). Requests arrive as clients send
\* them, under no fairness.
\* The configurations progress is checked under: one that reaches the write
\* path and enforces read-only sessions, one with enforcement disabled.
LiveDeployments ==
  { Deployment(Null, FALSE, FALSE, InsertPolicy),
    Deployment(Null, FALSE, TRUE, NothingAllowed) }

InitLive == Init /\ env \in LiveDeployments

SpecLive ==
  /\ InitLive /\ [][Next]_vars
  /\ \A c \in Tasks : SF_vars(Proceed(c)) /\ WF_vars(Deliver(c))

\* ------------------------------------------- permission evaluation, alone
\* The policies the evaluator is probed under: every combination of global
\* flags, and override maps over OverrideKeys for any set of categories.
OverrideKeys == {"dev", "constructor"}
OverrideMaps == UNION { [K -> BOOLEAN] : K \in SUBSET OverrideKeys }
ProbeSchemas == {Null, "dev", "prod", "constructor", "toString"}

PolicyDeployments ==
  { Deployment(Null, FALSE, FALSE,
               [ALLOW |-> a,
                SCHEMA_PERMISSIONS |-> [cat \in Cats |-> IF cat \in S THEN m ELSE NoSchemas]]) :
      a \in [Cats -> BOOLEAN], m \in OverrideMaps, S \in SUBSET Cats }

InitPolicy ==
  /\ env \in PolicyDeployments
  /\ poolPromise = "unset"
  /\ conns = [k \in ConnIds |-> NoConnection]
  /\ connectionQueue = << >>
  /\ task = [c \in Tasks |-> IdleTask]
  /\ probe = NoProbe
  /\ proc = InitProc

\* One of the four is*AllowedForSchema functions is called.
EvaluatePermission ==
  /\ probe = NoProbe
  /\ \E cat \in Cats, schema \in ProbeSchemas :
       probe' = [cat |-> cat, schema |-> schema,
                 result |-> isAllowedForSchema(cat, schema)]
  /\ UNCHANGED << env, poolPromise, conns, connectionQueue, task, proc >>

ForgetProbe ==
  /\ probe # NoProbe
  /\ probe' = NoProbe
  /\ UNCHANGED << env, poolPromise, conns, connectionQueue, task, proc >>

NextPolicy == EvaluatePermission \/ ForgetProbe

SpecPolicy == InitPolicy /\ [][NextPolicy]_vars

\* --------------------------------------------- schema extraction, alone
\* The database settings the extractor is probed under: MYSQL_DB unset,
\* blank or set, with and without a database in MYSQL_CONNECTION_STRING.
ExtractDeployments ==
  { [Deployment(db, FALSE, FALSE, NothingAllowed) EXCEPT !.CONNECTION_STRING_DB = cs] :
      db \in {Null, Blank, "shop", "crm"}, cs \in {Null, "shop"} }

InitExtract ==
  /\ env \in ExtractDeployments
  /\ poolPromise = "unset"
  /\ conns = [k \in ConnIds |-> NoConnection]
  /\ connectionQueue = << >>
  /\ task = [c \in Tasks |-> IdleTask]
  /\ probe = NoProbe
  /\ proc = InitProc

\* extractSchemaFromQuery is called on one text.
ExtractSchema ==
  /\ probe = NoProbe
  /\ \E q \in SqlNames \cup ExtractOnlyNames :
       probe' = [cat |-> "", schema |-> q, result |-> extractSchemaFromQuery(q)]
  /\ UNCHANGED << env, poolPromise, conns, connectionQueue, task, proc >>

NextExtract == ExtractSchema \/ ForgetProbe

SpecExtract == InitExtract /\ [][NextExtract]_vars

\* ------------------------------------------- parseSchemaPermissions, alone
\* A permissions string is a sequence of lexemes: a run of characters other
\* than comma, colon and blank, one comma, one colon, or a run of blanks
\* (written " "). Undefined is an unset variable, Str(<< >>) the empty
\* string.
MaxPairs == 3

Undefined == [defined |-> FALSE, text |-> << >>]
Str(text) == [defined |-> TRUE, text |-> text]

ProtoKey == "__proto__"

\* The pairs a permissions string is made of in the inputs.
PairTexts ==
  { << "dev", ":", "true" >>, << "dev", ":", "false" >>, << "prod", ":", "TRUE" >>,
    << " ", "prod", " ", ":", " ", "true", " " >>,
    << "dev" >>, << ":", "true" >>, << "prod", ":" >>, << >>,
    << " ", ":", "true" >>, << "dev", ":", "true", ":", "false" >>,
    << ProtoKey, ":", "false" >>, << "constructor", ":", "false" >> }

RECURSIVE JoinPairs(_)
JoinPairs(pairs) ==
  IF Len(pairs) = 0 THEN << >>
  ELSE IF Len(pairs) = 1 THEN pairs[1]
  ELSE pairs[1] \o << "," >> \o JoinPairs(Tail(pairs))

PermissionStrings ==
  {Undefined} \cup { Str(JoinPairs(pairs)) : pairs \in UNION { [1..n -> PairTexts] : n \in 0..MaxPairs } }

\* String.prototype.split(sep): the pieces between the separators.
RECURSIVE SplitOn(_, _)
SplitOn(str, sep) ==
  LET P == { i \in 1..Len(str) : str[i] = sep }
  IN IF P = {} THEN << str >>
     ELSE LET i == MinOf(P)
          IN << SubSeq(str, 1, i - 1) >> \o SplitOn(SubSeq(str, i + 1, Len(str)), sep)

\* String.prototype.trim().
RECURSIVE Trim(_)
Trim(str) ==
  IF str = << >> THEN str
  ELSE IF Head(str) = " " THEN Trim(Tail(str))
  ELSE IF str[Len(str)] = " " THEN Trim(SubSeq(str, 1, Len(str) - 1))
  ELSE str

\* The string a lexeme sequence spells.
RECURSIVE TextOf(_)
TextOf(str) == IF str = << >> THEN "" ELSE Head(str) \o TextOf(Tail(str))

\* permissions[key] = value on the object literal {}: an own property is
\* set, except for the key __proto__, whose inherited setter ignores a
\* boolean and leaves the object without that property.
SetProperty(permissions, key, value) ==
  IF key = ProtoKey THEN permissions
  ELSE [k \in DOMAIN permissions \cup {key} |->
          IF k = key THEN value ELSE permissions[k]]

\* The loop over permissionPairs: [schema, value] = pair.split(":"); a pair
\* whose schema or value is missing or the empty string is skipped.
RECURSIVE addPairs(_, _)
addPairs(permissions, permissionPairs) ==
  IF permissionPairs = << >> THEN permissions
  ELSE LET parts == SplitOn(Head(permissionPairs), ":")
           schema == parts[1]
           value == IF Len(parts) >= 2 THEN parts[2] ELSE << >>
       IN addPairs(
            IF schema # << >> /\ value # << >>
              THEN SetProperty(permissions, TextOf(Trim(schema)),
                               TextOf(Trim(value)) = "true")
              ELSE permissions,
            Tail(permissionPairs))

parseSchemaPermissions(permissionsString) ==
  IF ~permissionsString.defined \/ permissionsString.text = << >>
    THEN NoSchemas
    ELSE addPairs(NoSchemas, SplitOn(permissionsString.text, ","))

InitParse ==
  /\ env = Deployment(Null, FALSE, FALSE, NothingAllowed)
  /\ poolPromise = "unset"
  /\ conns = [k \in ConnIds |-> NoConnection]
  /\ connectionQueue = << >>
  /\ task = [c \in Tasks |-> IdleTask]
  /\ probe = NoProbe
  /\ proc = InitProc

\* parseSchemaPermissions is called on one string.
ParsePermissions ==
  /\ probe = NoProbe
  /\ \E str \in PermissionStrings :
       probe' = [cat |-> "parsed", schema |-> str, result |-> parseSchemaPermissions(str)]
  /\ UNCHANGED << env, poolPromise, conns, connectionQueue, task, proc >>

NextParse == ParsePermissions \/ ForgetProbe

SpecParse == InitParse /\ [][NextParse]_vars

\* ------------------------------------------ POST /mcp authorization, alone
\* A header value is a sequence of lexemes: the scheme prefix with its blank
\* ("Bearer ", "Basic ") or one character of a token.
MaxHeaderLen == 4

HeaderLexemes == {"Bearer ", "Basic ", "s", "x"}
AuthorizationHeaders ==
  {Undefined} \cup
  { Str(h) : h \in UNION { [1..n -> HeaderLexemes] : n \in 0..MaxHeaderLen } }

\* The values of REMOTE_SECRET_KEY the server runs in remote mode with
\* (the mode requires a key of non-zero length).
SecretKeys == { << "s" >>, << "x", "s" >> }

\* The environment of a server in remote mode with key REMOTE_SECRET_KEY.
RemoteDeployment(key) ==
  LET d == Deployment(Null, FALSE, FALSE, NothingAllowed)
  IN [f \in DOMAIN d \cup {"REMOTE_SECRET_KEY"} |->
        IF f = "REMOTE_SECRET_KEY" THEN key ELSE d[f]]
RemoteDeployments == { RemoteDeployment(key) : key \in SecretKeys }
REMOTE_SECRET_KEY == env["REMOTE_SECRET_KEY"]

\* String.prototype.startsWith / endsWith.
StartsWith(str, prefix) ==
  Len(prefix) <= Len(str) /\ SubSeq(str, 1, Len(prefix)) = prefix
EndsWith(str, suffix) ==
  Len(suffix) <= Len(str) /\ SubSeq(str, Len(str) - Len(suffix) + 1, Len(str)) = suffix

\* The test the POST /mcp route makes on req.get("Authorization") before it
\* hands the request to the MCP server; a request failing it gets 401.
authorized(header) ==
  /\ header.defined /\ header.text # << >>
  /\ StartsWith(header.text, << "Bearer " >>)
  /\ EndsWith(header.text, REMOTE_SECRET_KEY)

InitAuth ==
  /\ env \in RemoteDeployments
  /\ poolPromise = "unset"
  /\ conns = [k \in ConnIds |-> NoConnection]
  /\ connectionQueue = << >>
  /\ task = [c \in Tasks |-> IdleTask]
  /\ probe = NoProbe
  /\ proc = InitProc

\* One POST /mcp request arrives and is either passed on or refused.
PostMcp ==
  /\ probe = NoProbe
  /\ \E header \in AuthorizationHeaders :
       probe' = [cat |-> "post", schema |-> header,
                 result |-> IF authorized(header) THEN "handleRequest" ELSE "401"]
  /\ UNCHANGED << env, poolPromise, conns, connectionQueue, task, proc >>

NextAuth == PostMcp \/ ForgetProbe

SpecAuth == InitAuth /\ [][NextAuth]_vars

\* ------------------------------------------------- POST /mcp, stateless
\* The handler of a POST /mcp request: a request failing the authorization
\* test gets 401; otherwise a transport is created for it, the close handler
\* is registered on its response and mcpServer, the server object shared by
\* all requests, is connected to the transport. Connecting a server that is
\* connected already either moves it to the new transport or is rejected,
\* depending on the SDK release. Whatever server.connect or
\* transport.handleRequest rejects with, the catch block answers 500 when no
\* header has been sent: after a rejected connect the server stays where it
\* was, after a rejected handleRequest it is connected to the new transport.
PostMcpRequest(r) ==
  /\ proc.request[r] = "none"
  /\ \A q \in Requests : q < r => proc.request[q] # "none"
  /\ \E header \in AuthorizationHeaders :
       IF ~authorized(header)
         THEN proc' = [proc EXCEPT !.request[r] = "401"]
         ELSE \/ proc' = [proc EXCEPT !.request[r] = "handling",
                                      !.mcpServer.transport = r]
              \/ proc' = [proc EXCEPT !.request[r] = "500",
                                      !.mcpServer.transport = r]
              \/ proc' = [proc EXCEPT !.request[r] = "500"]
  /\ UNCHANGED << env, poolPromise, conns, connectionQueue, task, probe >>

\* transport.handleRequest settles for a request being handled. The server
\* writes through the transport it is connected to, so the answer reaches
\* the response of request r only while that transport is the one of r; a
\* handleRequest that rejects before any header is sent is answered with
\* 500 by the catch block.
RespondMcp(r) ==
  /\ proc.request[r] = "handling"
  /\ \/ /\ proc.mcpServer.transport = r
        /\ proc' = [proc EXCEPT !.request[r] = "responded"]
     \/ proc' = [proc EXCEPT !.request[r] = "500"]
  /\ UNCHANGED << env, poolPromise, conns, connectionQueue, task, probe >>

\* res.on("close"): the response of request r is closed, answered or
\* abandoned by the client. The handler is registered once the request is
\* authorized, so it also runs for a request answered with 500 and for one
\* whose transport another request's close has closed; transport.close()
\* closes the transport of r and server.close() closes the transport
\* mcpServer is connected to.
ResponseClosed(r) ==
  /\ proc.request[r] \in {"handling", "responded", "500", "aborted"}
  /\ LET t == proc.mcpServer.transport
     IN proc' = [proc EXCEPT
                   !.mcpServer.transport = 0,
                   !.request = [q \in Requests |->
                                  IF q = r THEN "closed"
                                  ELSE IF q = t /\ @[q] = "handling" THEN "aborted"
                                  ELSE @[q]]]
  /\ UNCHANGED << env, poolPromise, conns, connectionQueue, task, probe >>

NextHttp ==
  \E r \in Requests : PostMcpRequest(r) \/ RespondMcp(r) \/ ResponseClosed(r)

SpecHttp == InitAuth /\ [][NextHttp]_vars

\* ------------------------------------------- connection settings, alone
\* MYSQL_CONNECTION_STRING after the split into tokens on unquoted blanks: a
\* short option with the text attached to it ("-hdb1" is Short("h", "db1"),
\* "-A" is Short("A", "")), a long option with the text after its equals
\* sign, or a word not starting with a dash.
MaxTokens == 3

Short(flag, value) == [kind |-> "short", flag |-> flag, value |-> value]
Long(flag, value) == [kind |-> "long", flag |-> flag, value |-> value]
Word(text) == [kind |-> "word", flag |-> "", value |-> text]

ConnectionTokens ==
  { Short("h", "cs_host"), Short("P", "3307"), Short("P", "3307x"), Short("P", "abc"),
    Short("u", "cs_user"), Short("p", "cs_pass"), Short("S", "cs_sock"),
    Long("host", "cs_host2"), Short("A", ""), Short("p", ""), Word("cs_db") }

ConnectionStrings ==
  {Undefined} \cup
  { Str(t) : t \in UNION { [1..n -> ConnectionTokens] : n \in 1..MaxTokens } }

\* The MYSQL_* variables of the environment, each unset (Null) or set.
EnvironmentVariables ==
  [MYSQL_HOST : {Null, "env_host"}, MYSQL_PORT : {Null, "3308"},
   MYSQL_USER : {Null, "env_user"}, MYSQL_PASS : {Null, "env_pass"},
   MYSQL_DB : {Null, "env_db"}, MYSQL_SOCKET_PATH : {Null, "env_sock"}]

\* parseInt(value, 10) followed by the range test: the port, or Null when
\* the result is NaN or outside 1..65535.
parsePort(value) ==
  CASE value \in {"3307", "3307x"} -> "3307"
    [] value = "3308"              -> "3308"
    [] OTHER                       -> Null

NoConnectionConfig ==
  [host |-> Null, port |-> Null, user |-> Null, password |-> Null,
   database |-> Null, socketPath |-> Null, error |-> FALSE]

\* The option a token sets, by its short or long flag.
OptionOf(token) ==
  IF token.kind = "short"
    THEN CASE token.flag = "h" -> "host" [] token.flag = "P" -> "port"
           [] token.flag = "u" -> "user" [] token.flag = "p" -> "password"
           [] token.flag = "S" -> "socketPath" [] OTHER -> Null
    ELSE CASE token.flag = "host" -> "host" [] token.flag = "port" -> "port"
           [] token.flag = "user" -> "user" [] token.flag = "password" -> "password"
           [] token.flag = "socket" -> "socketPath" [] OTHER -> Null

\* The loop over the tokens, from token i on: an option without attached
\* text takes the next token as its value when that one is not an option;
\* a remaining word is the database; an invalid port throws.
RECURSIVE processTokens(_, _, _)
processTokens(config, tokens, i) ==
  IF i > Len(tokens) \/ config.error THEN config
  ELSE LET token == tokens[i]
       IN IF token.kind = "word"
            THEN processTokens([config EXCEPT !.database = token.value], tokens, i + 1)
            ELSE LET takesNext == token.value = "" /\ i + 1 <= Len(tokens)
                                  /\ tokens[i + 1].kind = "word"
                     value == IF takesNext THEN tokens[i + 1].value ELSE token.value
                     next == IF takesNext THEN i + 2 ELSE i + 1
                     option == OptionOf(token)
                 IN processTokens(
                      CASE option = Null -> config
                        [] option = "port" ->
                             IF parsePort(value) = Null
                               THEN [config EXCEPT !.error = TRUE]
                               ELSE [config EXCEPT !.port = parsePort(value)]
                        [] OTHER -> [config EXCEPT ![option] = value],
                      tokens, next)

parseMySQLConnectionString(connectionString) ==
  processTokens(NoConnectionConfig, connectionString.text, 1)

\* connectionStringConfig: the parsed MYSQL_CONNECTION_STRING, or {}.
connectionStringConfig(connectionString) ==
  IF connectionString.defined /\ connectionString.text # << >>
    THEN parseMySQLConnectionString(connectionString)
    ELSE NoConnectionConfig

\* a || b on strings: a unless it is undefined or the empty string.
OrElse(a, b) == IF a # Null /\ a # "" THEN a ELSE b

\* mcpConfig.mysql, the options createPool is given: the socket path when
\* the connection string or the environment has one, host and port
\* otherwise; user, password and database.
mysqlConfig(connectionString, e) ==
  LET cs == connectionStringConfig(connectionString)
      socketPath == OrElse(cs.socketPath, e.MYSQL_SOCKET_PATH)
  IN IF cs.error THEN [error |-> TRUE]
     ELSE [error |-> FALSE,
           socketPath |-> socketPath,
           host |-> IF socketPath # Null THEN Null
                    ELSE OrElse(cs.host, OrElse(e.MYSQL_HOST, "127.0.0.1")),
           port |-> IF socketPath # Null THEN Null
                    ELSE OrElse(cs.port, OrElse(e.MYSQL_PORT, "3306")),
           user |-> OrElse(cs.user, OrElse(e.MYSQL_USER, "root")),
           password |-> IF cs.password # Null THEN cs.password
                        ELSE IF e.MYSQL_PASS = Null THEN "" ELSE e.MYSQL_PASS,
           database |-> OrElse(cs.database, e.MYSQL_DB)]

\* The configuration module is loaded under one environment.
LoadConfig ==
  /\ probe = NoProbe
  /\ \E connectionString \in ConnectionStrings, e \in EnvironmentVariables :
       probe' = [cat |-> "config",
                 schema |-> [MYSQL_CONNECTION_STRING |-> connectionString, environment |-> e],
                 result |-> mysqlConfig(connectionString, e)]
  /\ UNCHANGED << env, poolPromise, conns, connectionQueue, task, proc >>

NextConfig == LoadConfig \/ ForgetProbe

SpecConfig == InitParse /\ [][NextConfig]_vars

\* ------------------------------------------------------------ properties
TypeOK ==
  /\ env \in Deployments \cup PolicyDeployments \cup ExtractDeployments
                         \cup RemoteDeployments
  /\ poolPromise \in {"unset", "resolved", "rejected"}
  /\ \A k \in ConnIds : conns[k].state \in {"absent", "free", "busy"}
  /\ \A c \in Tasks : task[c].connection \in ConnIds \cup {0}

\* The permission policy as documented: an override configured for the
\* schema wins, otherwise the global flag decides.
PolicyAllows(cat, schema) ==
  IF schema # Null /\ schema \in DOMAIN SCHEMA_PERMISSIONS(cat)
    THEN SCHEMA_PERMISSIONS(cat)[schema]
    ELSE ALLOW_OPERATION(cat)

Ops(c) == task[c].trace
Positions(c, name) == { i \in 1..Len(Ops(c)) : Ops(c)[i][1] = name }
Count(c, name) == Cardinality(Positions(c, name))
Issued(c, name) == Positions(c, name) # {}
Did(c, name, ok) == \E i \in 1..Len(Ops(c)) : Ops(c)[i] = Op(name, ok)
Settled(c) == task[c].pc = "done"
ReadOnlyEnforced == ~MYSQL_DISABLE_READ_ONLY_TRANSACTIONS

\* C2 (as claimed): for every category and every schema name the extractor
\* can return, the permission check yields a boolean, equal to the override
\* configured for that schema if there is one and to the global flag
\* otherwise; for the null schema it is the global flag.
C2_PermissionIsOverrideElseGlobal ==
  probe # NoProbe =>
    /\ IsJSBoolean(probe.result)
    /\ probe.result = ToJS(PolicyAllows(probe.cat, probe.schema))

\* C1 (as claimed): a batch handled by executeReadOnlyQuery in which a
\* write/ddl category is present and not allowed for the resolved schema
\* acquires no connection, executes nothing and answers isError=true.
C1_DeniedBatchTouchesNoConnection ==
  \A c \in Tasks :
    ( /\ task[c].entry = "executeReadOnlyQuery"
      /\ SqlParses(task[c].sql)
      /\ \E cat \in CatsOf(task[c].sql) :
           ~PolicyAllows(cat, extractSchemaFromQuery(task[c].sql)) )
    => /\ Ops(c) = << >>
       /\ Settled(c) => (task[c].result.kind = "envelope" /\ task[c].result.isError)

\* C3 (as claimed): in multi-DB mode without MULTI_DB_WRITE_MODE=true every
\* insert, update, delete and ddl request is denied whatever the ALLOW_*
\* flags are, and no write-path transaction is started.
C3_MultiDbModeIsReadOnly ==
  (isMultiDbMode /\ ~env.MULTI_DB_WRITE_MODE) =>
    \A c \in Tasks :
      ( /\ task[c].entry = "executeReadOnlyQuery"
        /\ SqlParses(task[c].sql)
        /\ CatsOf(task[c].sql) # {} )
      => /\ ~Did(c, "BEGIN", TRUE)
         /\ Settled(c) => (task[c].result.kind = "envelope" /\ task[c].result.isError)

FirstPosition(c, name) == MinOf(Positions(c, name))
AllSucceeded(c) == \A i \in 1..Len(Ops(c)) : Ops(c)[i][2]
SomeFailed(c) == ~AllSucceeded(c)

\* C4 (as claimed): the read path never commits. A call running the read
\* path issues no COMMIT, and the transaction that ran its statement is
\* rolled back, whether the statement succeeded or failed: the operation
\* that follows the statement is a ROLLBACK, and once the call has settled a
\* ROLLBACK issued after the statement has succeeded. The committed state
\* of the database is therefore what it was before the call: no connection
\* goes back to the pool with a transaction of the read path still open on
\* its session, and no call begins a transaction on such a session (START
\* TRANSACTION commits the transaction that is open).
C4_ReadPathNeverCommits ==
  /\ \A c \in Tasks :
       task[c].fn = "read" =>
         /\ ~Issued(c, "COMMIT")
         /\ Issued(c, "EXEC") =>
              LET e == FirstPosition(c, "EXEC")
              IN /\ Count(c, "EXEC") = 1
                 /\ Len(Ops(c)) > e => Ops(c)[e + 1][1] = "ROLLBACK"
                 /\ Settled(c) =>
                      \E i \in Positions(c, "ROLLBACK") : i > e /\ Ops(c)[i][2]
  /\ \A k \in ConnIds : conns[k].state = "free" => ~conns[k].readTransaction
  /\ \A c \in Tasks :
       task[c].pc \in {"r_begin", "w_begin"} => ~Session(c).readTransaction

\* C5 (as claimed): on the write path, once a transaction was begun,
\* a successful statement is followed by exactly one commit and no rollback,
\* and a failed statement by exactly one rollback and no commit.
C5_CommitXorRollback ==
  \A c \in Tasks :
    (task[c].fn = "write" /\ Settled(c) /\ Did(c, "BEGIN", TRUE)) =>
      /\ Did(c, "EXEC", TRUE) => (Count(c, "COMMIT") = 1 /\ Count(c, "ROLLBACK") = 0)
      /\ Did(c, "EXEC", FALSE) => (Count(c, "ROLLBACK") = 1 /\ Count(c, "COMMIT") = 0)

\* C5 (amended): on the write path, once a transaction was begun, a failed
\* statement is followed by exactly one rollback and no commit; a successful
\* statement is followed by exactly one commit, and by exactly one rollback
\* after it when that commit fails or when building the response after the
\* commit throws, and by no rollback otherwise; a call that answers
\* isError=false committed once and rolled back nothing.
C5_CommitThenRollbackOnlyOnFailure ==
  \A c \in Tasks :
    (task[c].fn = "write" /\ Settled(c) /\ Did(c, "BEGIN", TRUE)) =>
      /\ Did(c, "EXEC", FALSE) => (Count(c, "ROLLBACK") = 1 /\ Count(c, "COMMIT") = 0)
      /\ Did(c, "EXEC", TRUE) =>
           /\ Count(c, "COMMIT") = 1
           /\ IF Did(c, "COMMIT", TRUE) /\ SqlParses(task[c].sql)
                THEN Count(c, "ROLLBACK") = 0
                ELSE /\ Count(c, "ROLLBACK") = 1
                     /\ FirstPosition(c, "ROLLBACK") > FirstPosition(c, "COMMIT")
      /\ ~task[c].result.isError => (Did(c, "COMMIT", TRUE) /\ Count(c, "ROLLBACK") = 0)

\* A write call whose statement succeeded and whose commit failed has
\* settled, having rolled back.
C5_Witness ==
  \E c \in Tasks :
    /\ task[c].fn = "write" /\ Settled(c)
    /\ Did(c, "EXEC", TRUE) /\ Did(c, "COMMIT", FALSE) /\ Issued(c, "ROLLBACK")

\* C6: every connection acquired by executeQuery, executeWriteQuery or the
\* read path is released exactly once, on every exit path. A call acquires
\* at most one connection and never releases more than it acquired; it holds
\* a connection exactly between its acquisition and its release; a settled
\* call has released what it acquired (nothing if it acquired nothing, once
\* if it delegated to the write path); a connection in use belongs to a
\* call that is still running.
C6_ReleasedExactlyOnce ==
  /\ \A c \in Tasks :
       /\ Count(c, "ACQUIRE") <= 1
       /\ Count(c, "RELEASE") <= Count(c, "ACQUIRE")
       /\ (task[c].connection # 0) <=> (Count(c, "ACQUIRE") = 1 /\ Count(c, "RELEASE") = 0)
       /\ Settled(c) => Count(c, "RELEASE") = Count(c, "ACQUIRE")
       /\ (Settled(c) /\ Issued(c, "RELEASE")) => Ops(c)[Len(Ops(c))] = Op("RELEASE", TRUE)
  /\ \A k \in ConnIds :
       conns[k].state = "busy" =>
         /\ conns[k].owner \in Tasks
         /\ task[conns[k].owner].connection = k
         /\ task[conns[k].owner].pc \notin {"idle", "done"}

\* A read call has settled after both of its rollbacks failed, and has
\* released its connection.
C6_Witness ==
  \E c \in Tasks :
    /\ task[c].fn = "read" /\ Settled(c)
    /\ Did(c, "EXEC", FALSE) /\ ~Did(c, "ROLLBACK", TRUE)
    /\ Count(c, "ACQUIRE") = 1 /\ Count(c, "RELEASE") = 1

\* The order of operations on the read path.
Rank(name) ==
  CASE name = "ACQUIRE"        -> 0
    [] name = "SET_READ_ONLY"  -> 1
    [] name = "BEGIN"          -> 2
    [] name = "EXEC"           -> 3
    [] name = "ROLLBACK"       -> 4
    [] name = "SET_READ_WRITE" -> 5
    [] name = "RELEASE"        -> 6
    [] OTHER                   -> 7

EnforcedReadSequence ==
  << Op("ACQUIRE", TRUE), Op("SET_READ_ONLY", TRUE), Op("BEGIN", TRUE), Op("EXEC", TRUE),
     Op("ROLLBACK", TRUE), Op("SET_READ_WRITE", TRUE), Op("RELEASE", TRUE) >>
UnenforcedReadSequence ==
  << Op("ACQUIRE", TRUE), Op("BEGIN", TRUE), Op("EXEC", TRUE), Op("ROLLBACK", TRUE),
     Op("RELEASE", TRUE) >>

ExpectedReadSequence ==
  IF ReadOnlyEnforced THEN EnforcedReadSequence ELSE UnenforcedReadSequence

\* The operations of a call up to and including its first failed one.
UntilFirstFailure(c) ==
  LET F == { i \in 1..Len(Ops(c)) : ~Ops(c)[i][2] }
  IN IF F = {} THEN Ops(c) ELSE SubSeq(Ops(c), 1, MinOf(F))

\* C7: with read-only enforcement enabled, a statement on the read path runs
\* in a transaction begun after SET SESSION TRANSACTION READ ONLY succeeded
\* on the same connection, and the operations come in the order SET READ
\* ONLY, BEGIN, execute, ROLLBACK, SET READ WRITE, release; with enforcement
\* disabled no SET statement is issued and the order is BEGIN, execute,
\* ROLLBACK, release. Up to its first failing operation a call follows that
\* sequence step by step, and follows it exactly and to the end when nothing
\* fails; each kind of operation is first issued in that order; the only
\* operations repeated are the catch block's ROLLBACK and SET READ WRITE,
\* which go back in the order only after a failed SET READ WRITE; release
\* is last.
C7_ReadPathOrder ==
  \A c \in Tasks :
    task[c].fn = "read" =>
      /\ LET u == UntilFirstFailure(c)
         IN /\ Len(u) <= Len(ExpectedReadSequence)
            /\ \A i \in 1..Len(u) : u[i][1] = ExpectedReadSequence[i][1]
      /\ \A i, j \in 1..Len(Ops(c)) :
           (Rank(Ops(c)[i][1]) < Rank(Ops(c)[j][1])) =>
             FirstPosition(c, Ops(c)[i][1]) < FirstPosition(c, Ops(c)[j][1])
      /\ \A name \in {"ACQUIRE", "SET_READ_ONLY", "BEGIN", "EXEC", "RELEASE"} :
           Count(c, name) <= 1
      /\ ~Did(c, "SET_READ_WRITE", FALSE) =>
           \A i, j \in 1..Len(Ops(c)) : i < j => Rank(Ops(c)[i][1]) <= Rank(Ops(c)[j][1])
      /\ Issued(c, "EXEC") =>
           IF ReadOnlyEnforced
             THEN Did(c, "SET_READ_ONLY", TRUE) /\ Did(c, "BEGIN", TRUE)
                  /\ FirstPosition(c, "SET_READ_ONLY") < FirstPosition(c, "BEGIN")
                  /\ FirstPosition(c, "BEGIN") < FirstPosition(c, "EXEC")
             ELSE Did(c, "BEGIN", TRUE)
                  /\ FirstPosition(c, "BEGIN") < FirstPosition(c, "EXEC")
      /\ ~ReadOnlyEnforced => (~Issued(c, "SET_READ_ONLY") /\ ~Issued(c, "SET_READ_WRITE"))
      /\ (Settled(c) /\ Issued(c, "ACQUIRE")) =>
           /\ Ops(c)[Len(Ops(c))][1] = "RELEASE"
           /\ AllSucceeded(c) => Ops(c) = ExpectedReadSequence

\* A read call has settled after the full enforced sequence.
C7_Witness ==
  \E c \in Tasks :
    /\ ReadOnlyEnforced
    /\ task[c].fn = "read" /\ Settled(c)
    /\ Ops(c) = EnforcedReadSequence

\* C8 (as claimed): with read-only enforcement enabled, a connection the
\* read path has returned to the pool is in read-write session mode whatever
\* the outcome of the call was, so the write path never begins its
\* transaction on a connection whose session is read-only.
C8_SessionRestoredOnRelease ==
  ReadOnlyEnforced =>
    /\ \A k \in ConnIds : conns[k].state = "free" => ~conns[k].readOnly
    /\ \A c \in Tasks : task[c].pc = "w_begin" => ~SessionReadOnly(c)

\* C9: executeWriteQuery never throws. Whenever a call running it has
\* settled it has returned an envelope, and the envelope has isError=true if
\* the pool or the connection could not be obtained or any operation on the
\* connection failed.
C9_WriteNeverThrows ==
  \A c \in Tasks :
    (task[c].fn = "write" /\ Settled(c)) =>
      /\ task[c].result.kind = "envelope"
      /\ (SomeFailed(c) \/ ~Issued(c, "ACQUIRE")) => task[c].result.isError

\* A write call has settled after its statement and its rollback both failed.
C9_Witness ==
  \E c \in Tasks :
    /\ task[c].fn = "write" /\ Settled(c)
    /\ Did(c, "EXEC", FALSE) /\ Did(c, "ROLLBACK", FALSE)
    /\ task[c].result.kind = "envelope" /\ task[c].result.isError

\* C10 (as claimed): when the statement fails on the read path the call
\* rolls back, releases the connection and throws that statement's error.
C10_ReadRethrowsExecutionError ==
  \A c \in Tasks :
    (task[c].fn = "read" /\ Settled(c) /\ Did(c, "EXEC", FALSE)) =>
      /\ task[c].result = Thrown("ExecError")
      /\ Issued(c, "ROLLBACK")
      /\ Count(c, "RELEASE") = 1

\* C14 (as claimed): in single-DB mode, the database being configured through
\* MYSQL_DB or through the connection string, extractSchemaFromQuery returns
\* the configured database for every text, whatever USE statement or
\* qualifier the text holds.
C14_SingleDbReturnsConfigured ==
  (probe # NoProbe /\ ~isMultiDbMode) => probe.result = dbFromEnvOrConnString

\* A USE statement: the keyword itself, in any case, and its operand.
UseStatementOperand(tokens) ==
  LET Name(i) == IF tokens[i + 2] = BackTick /\ i + 3 <= Len(tokens)
                   THEN tokens[i + 3] ELSE tokens[i + 2]
      I == { i \in 1..(Len(tokens) - 2) :
               /\ tokens[i] \in {"USE", "use", "Use"}
               /\ tokens[i + 1] = " "
               /\ IsIdentifier(Name(i)) }
  IN IF I = {} THEN Null ELSE Name(MinOf(I))

\* C15 (as claimed): in multi-DB mode the schema is the operand of a USE
\* statement occurring anywhere in the text, else the schema part of the
\* first qualified reference, else the configured default (null if none).
C15_MultiDbResolutionOrder ==
  (probe # NoProbe /\ isMultiDbMode) =>
    LET tokens == SqlTokens(probe.schema)
    IN probe.result =
         IF UseStatementOperand(tokens) # Null THEN UseStatementOperand(tokens)
         ELSE IF dbTableMatch(tokens) # Null THEN dbTableMatch(tokens)
         ELSE env.MYSQL_DB

\* C11: when the classifier cannot parse the text given to
\* executeReadOnlyQuery, the call creates and uses no pool, acquires no
\* connection and issues nothing, acts on no schema or permission result,
\* and fails with the parse failure ("Parsing failed: ...").
C11_ParseFailureTouchesNothing ==
  /\ [](\A c \in Tasks :
          (task[c].entry = "executeReadOnlyQuery" /\ ~SqlParses(task[c].sql)) =>
            /\ task[c].pc = "done"
            /\ Ops(c) = << >>
            /\ task[c].connection = 0
            /\ task[c].result = Thrown("Parsing failed"))
  /\ [][\A c \in Tasks :
          (task'[c].entry = "executeReadOnlyQuery" /\ ~SqlParses(task'[c].sql)
             /\ task[c].pc = "idle") =>
            /\ poolPromise' = poolPromise
            /\ proc'.createPoolCalls = proc.createPoolCalls
            /\ conns' = conns
            /\ connectionQueue' = connectionQueue]_vars

\* An unparsable text has been submitted before any pool existed, and the
\* call has failed.
C11_Witness ==
  \E c \in Tasks :
    /\ task[c].entry = "executeReadOnlyQuery" /\ ~SqlParses(task[c].sql)
    /\ Settled(c) /\ poolPromise = "unset"

\* C12: the CallTool handler answers every request with an envelope; it
\* never throws and never terminates the process. A parse error, a
\* permission denial, an execution error on the read path, an error on the
\* write path, a failure to obtain the pool or a connection, and an unknown
\* tool name each give an envelope with isError=true; the process exit state
\* changes in no step other than the start-up test's failure handling.
C12_ToolCallAlwaysAnswersEnvelope ==
  /\ [](\A c \in Tasks :
          (task[c].handler = "CallTool" /\ Settled(c)) =>
            LET response == handlerResponse(task[c].handler, task[c].result)
            IN /\ response.kind = "envelope"
               /\ (SomeFailed(c) \/ ~Issued(c, "ACQUIRE")) => response.isError
               /\ task[c].result.kind = "throw" => response.isError
               /\ ~response.isError => task[c].result = response
               /\ handlerExit(task[c].handler, task[c].result) = proc)
  /\ [][proc'.exit # proc.exit =>
          \E c \in Tasks : task[c].handler = "startup" /\ Settled(c)]_vars

\* A tool call whose statement failed on the read path has thrown to the
\* handler.
C12_Witness ==
  \E c \in Tasks :
    /\ task[c].handler = "CallTool" /\ Settled(c)
    /\ task[c].fn = "read" /\ Did(c, "EXEC", FALSE)
    /\ task[c].result.kind = "throw"

\* The batch of call c has a category the documented policy denies for the
\* schema the call resolves.
DeniedByPolicy(c) ==
  \E cat \in CatsOf(task[c].sql) :
    ~PolicyAllows(cat, extractSchemaFromQuery(task[c].sql))

\* C13 (as claimed): a submitted query runs on exactly one path, in one
\* transaction. A batch with a write/ddl category, all allowed, runs on the
\* write path only; a batch with no write/ddl category runs on the read path
\* only; a batch with a denied category runs on neither (no connection, no
\* operation). No call issues operations of both paths.
C13_OnePathPerQuery ==
  \A c \in Tasks :
    (task[c].entry = "executeReadOnlyQuery" /\ SqlParses(task[c].sql)) =>
      /\ DeniedByPolicy(c) => Ops(c) = << >>
      /\ (CatsOf(task[c].sql) # {} /\ ~DeniedByPolicy(c)) =>
           /\ task[c].fn = "write"
           /\ ~Issued(c, "SET_READ_ONLY") /\ ~Issued(c, "SET_READ_WRITE")
      /\ CatsOf(task[c].sql) = {} =>
           /\ task[c].fn = "read"
           /\ ~Issued(c, "COMMIT")
      /\ Count(c, "BEGIN") <= 1 /\ Count(c, "EXEC") <= 1
      /\ ~(Issued(c, "COMMIT") /\ Issued(c, "SET_READ_ONLY"))

\* No ALLOW_*_OPERATION and no SCHEMA_*_PERMISSIONS variable is set.
NoPermissionConfiguration ==
  /\ \A cat \in Cats : ~ALLOW_OPERATION(cat)
  /\ \A cat \in Cats : DOMAIN SCHEMA_PERMISSIONS(cat) = {}

\* C16 (as claimed): with no permission configuration every insert, update,
\* delete and ddl request is denied, for every schema and for the null
\* schema: no request of the server reaches the write path, and a batch with
\* such a category gets an error envelope without any database operation.
C16_NoConfigurationOnlyReads ==
  NoPermissionConfiguration =>
    \A c \in Tasks :
      task[c].entry = "executeReadOnlyQuery" =>
        /\ task[c].fn # "write"
        /\ ~Issued(c, "COMMIT")
        /\ (SqlParses(task[c].sql) /\ CatsOf(task[c].sql) # {}) =>
             /\ ~Issued(c, "ACQUIRE")
             /\ Settled(c) => (task[c].result.kind = "envelope" /\ task[c].result.isError)

\* The connections call c holds: acquisitions not yet followed by a release.
Holding(c) == Count(c, "ACQUIRE") - Count(c, "RELEASE") - (IF Did(c, "ACQUIRE", FALSE) THEN 1 ELSE 0)

\* C17: in every interleaving of calls (tool calls, resource reads, the
\* start-up test) a pooled connection is used by at most one call from its
\* acquisition to its release, and a call holds at most one connection at
\* a time: two calls never hold the same connection, the connection a call
\* holds is marked in use by that call in the pool, a connection not held
\* is not referred to by any call, and every database operation of a call
\* is issued on the connection it holds.
C17_ExclusiveConnectionOwnership ==
  /\ [](\A c \in Tasks :
          /\ Holding(c) \in {0, 1}
          /\ (Holding(c) = 1) <=> (task[c].connection # 0)
          /\ task[c].connection # 0 =>
               /\ conns[task[c].connection].state = "busy"
               /\ conns[task[c].connection].owner = c
               /\ \A d \in Tasks \ {c} : task[d].connection # task[c].connection)
  /\ [](\A k \in ConnIds :
          conns[k].state = "busy" =>
            Cardinality({ c \in Tasks : task[c].connection = k }) = 1)
  /\ [][\A c \in Tasks :
          (Len(task'[c].trace) > Len(task[c].trace)
             /\ task'[c].trace[Len(task'[c].trace)][1] # "ACQUIRE") =>
            /\ task[c].connection # 0
            /\ conns[task[c].connection].owner = c
            /\ conns[task[c].connection].state = "busy"]_vars

\* Two calls are in flight with the pool exhausted: one holds the only
\* connection in the middle of its transaction, the other waits for it.
C17_Witness ==
  \E c, d \in Tasks :
    /\ c # d
    /\ task[c].connection # 0 /\ Issued(c, "BEGIN")
    /\ task[d].pc = "waiting" /\ task[d].connection = 0

\* C18: getPool creates the pool at most once in the lifetime of the
\* process. mysql2.createPool has run exactly once as soon as any call has
\* called getPool, however many calls do so and however they interleave, and
\* poolPromise, once set, is never replaced: every call gets the same promise
\* (a rejected one included).
C18_PoolCreatedOnce ==
  /\ [](/\ proc.createPoolCalls <= 1
        /\ (poolPromise # "unset") <=> (proc.createPoolCalls = 1))
  /\ [][poolPromise # "unset" =>
          /\ poolPromise' = poolPromise
          /\ proc'.createPoolCalls = proc.createPoolCalls]_vars

\* Two concurrent calls have both obtained the pool and neither has a
\* connection yet.
C18_Witness ==
  /\ proc.createPoolCalls = 1
  /\ \E c, d \in Tasks :
       /\ c # d
       /\ task[c].pc = "getConnection" /\ task[d].pc = "getConnection"

Exited == proc.exit # Running
PoolExhausted == FreeConns = {} /\ AbsentConns = {}

\* C19: with more concurrent calls than the pool has connections, the extra
\* callers wait for a free connection instead of failing, and, every database
\* operation returning and scheduling being fair, every waiting call gets a
\* connection, every call reaches its response and every connection held is
\* given back, as long as the process runs: no deadlock on the pool.
C19_NoPoolDeadlock ==
  /\ [][\A c \in Tasks :
          (task[c].pc = "getConnection" /\ PoolExhausted /\ task'[c] # task[c]) =>
            task'[c].pc = "waiting"]_vars
  /\ \A c \in Tasks :
       /\ (task[c].pc = "waiting") ~> (task[c].connection # 0 \/ Exited)
       /\ (task[c].pc \in {"getConnection", "waiting"}) ~> (Settled(c) \/ Exited)
       /\ (task[c].connection # 0) ~> ((Settled(c) /\ task[c].connection = 0) \/ Exited)
       /\ Settled(c) ~> (task[c].pc = "idle" \/ Exited)

\* A caller has been queued on the exhausted pool and has then been given
\* the connection by the release of the call that held it.
C19_Witness ==
  \E c, d \in Tasks :
    /\ c # d
    /\ Settled(d) /\ Did(d, "RELEASE", TRUE)
    /\ task[c].connection # 0
    /\ conns[task[c].connection].owner = c
    /\ FirstPosition(d, "ACQUIRE") = 1
    /\ task[c].pc # "getConnection"
    /\ connectionQueue = << >>
    /\ task[c].trace = << Op("ACQUIRE", TRUE) >>
    /\ task[d].fn = "write" /\ task[c].fn = "read"

PoolCreated == poolPromise = "resolved"

\* C20 (as claimed): on SIGINT or SIGTERM with the pool created, the process
\* exits with code 0 only after pool.end() has completed successfully, and a
\* failure of pool.end() leads to exit code 1 rather than 0.
C20_ExitFollowsPoolEnd ==
  PoolCreated =>
    /\ proc.exit = ExitCode0 => proc.pool = "closed"
    /\ \A sig \in Signals : proc.signal[sig] = "failed" => proc.exit = ExitCode1

\* C20 (amended): on SIGINT or SIGTERM with the pool created, the process
\* exits with code 0 only after a pool.end() has completed successfully, in
\* the handler that awaited it. A handler whose pool.end() fails calls
\* safeExit(1) and never exits with 0 itself: outside a test environment the
\* process exits with code 1; in a test environment (NODE_ENV=test or VITEST
\* set) safeExit only logs, the process keeps running and never has exit
\* code 1, and may still exit with 0 through a later invocation of a signal
\* handler (the same signal delivered again, or the other one) once its
\* pool.end() succeeds.
C20_ExitFollowsPoolEndUnlessTest ==
  /\ [](PoolCreated =>
          /\ proc.exit = ExitCode0 =>
               /\ proc.pool = "closed"
               /\ \E sig \in Signals : proc.signal[sig] = "ended"
          /\ \A sig \in Signals :
               proc.signal[sig] = "failed" =>
                 IF isTestEnvironment THEN proc.exit # ExitCode1
                                      ELSE proc.exit = ExitCode1)
  /\ [][\A sig \in Signals :
          (proc.signal[sig] # "failed" /\ proc'.signal[sig] = "failed") =>
            proc'.exit = (IF isTestEnvironment THEN proc.exit ELSE ExitCode1)]_vars

\* In a test environment, with a resource read in flight, the pool.end() of
\* one handler has failed and the process has then exited with 0 after the
\* pool.end() of the other succeeded.
C20_Witness ==
  /\ PoolCreated /\ isTestEnvironment
  /\ proc.exit = ExitCode0
  /\ \E sig, other \in Signals :
       proc.signal[sig] = "failed" /\ proc.signal[other] = "ended"
  /\ \E c \in Tasks : task[c].pc = "q_query"

\* C21: when the start-up connection test fails (getPool rejects or the
\* first getConnection fails) the process terminates with exit code 1 unless
\* it runs in a test environment, where safeExit terminates nothing: the
\* process keeps running and never has exit code 1. When the test succeeds
\* the connection it acquired has been released.
C21_StartupProbeOutcome ==
  /\ [](isTestEnvironment => proc.exit # ExitCode1)
  /\ [](\A c \in Tasks :
          (task[c].handler = "startup" /\ Settled(c)) =>
            /\ task[c].connection = 0
            /\ task[c].result.kind \in {"void", "throw"}
            /\ task[c].result.kind = "void" <=>
                 Ops(c) = << Op("ACQUIRE", TRUE), Op("RELEASE", TRUE) >>
            /\ task[c].result.kind = "throw" <=> ~Did(c, "ACQUIRE", TRUE)
            /\ \A k \in ConnIds : conns[k].owner # c)
  /\ [][\A c \in Tasks :
          (task[c].handler = "startup" /\ Settled(c) /\ task'[c].pc = "idle") =>
            proc'.exit = (IF task[c].result.kind = "throw" /\ ~isTestEnvironment
                            THEN ExitCode1 ELSE proc.exit)]_vars

\* Outside a test environment the pool was created, the first getConnection
\* of the start-up test failed and the process has exited with code 1.
C21_Witness ==
  /\ ~isTestEnvironment
  /\ poolPromise = "resolved"
  /\ proc.startup = "started"
  /\ proc.exit = ExitCode1

\* C22 (as claimed): both resource-introspection queries, the table list of
\* ListResources and the column list of ReadResource, run through the
\* read-only execution path: classified by executeReadOnlyQuery, inside a
\* transaction, under read-only session mode when enforcement is enabled,
\* and rolled back, like a select submitted through the tool.
C22_IntrospectionOnReadPath ==
  \A c \in Tasks :
    (task[c].handler \in {"ListResources", "ReadResource"} /\ Did(c, "ACQUIRE", TRUE)) =>
      /\ task[c].entry = "executeReadOnlyQuery"
      /\ task[c].fn = "read"
      /\ ~Issued(c, "QUERY")
      /\ (Settled(c) /\ AllSucceeded(c)) =>
           /\ Did(c, "BEGIN", TRUE) /\ Did(c, "EXEC", TRUE) /\ Did(c, "ROLLBACK", TRUE)
           /\ ReadOnlyEnforced => Did(c, "SET_READ_ONLY", TRUE)

ErrorMessages ==
  {"Database connection error", "Error executing write operation"} \cup Cats
OperationSummaries ==
  {"Insert successful", "Update successful", "Delete successful", "DDL operation successful"}
ReturnedEnvelope(c) ==
  /\ Settled(c)
  /\ task[c].entry \in {"executeReadOnlyQuery", "executeWriteQuery"}
  /\ task[c].result.kind = "envelope"

\* C23 (as claimed): an envelope returned by executeReadOnlyQuery or
\* executeWriteQuery with isError=true has exactly one content item, an
\* error message and never serialized rows; with isError=false its first
\* item is the primary payload, serialized rows on the read path and an
\* operation summary on the write path, followed by exactly one
\* execution-time item.
C23_EnvelopeShape ==
  \A c \in Tasks :
    ReturnedEnvelope(c) =>
      LET content == task[c].result.content
      IN IF task[c].result.isError
           THEN Len(content) = 1 /\ content[1] \in ErrorMessages
           ELSE /\ Len(content) = 2
                /\ content[2] = "Query execution time"
                /\ content[1] \in (IF task[c].fn = "read" THEN {"rows"}
                                                           ELSE OperationSummaries)

\* C23 (amended): as claimed, except that on the write path the first item
\* of a success envelope is an operation summary when the batch has an
\* insert, update, delete or ddl statement and the serialized result of the
\* statement otherwise, which happens when executeWriteQuery is called
\* directly with a text of another kind.
C23_EnvelopeShapeByBatchKind ==
  \A c \in Tasks :
    ReturnedEnvelope(c) =>
      LET content == task[c].result.content
      IN IF task[c].result.isError
           THEN Len(content) = 1 /\ content[1] \in ErrorMessages
           ELSE /\ Len(content) = 2
                /\ content[2] = "Query execution time"
                /\ content[1] \in (IF task[c].fn = "read" \/ CatsOf(task[c].sql) = {}
                                     THEN {"rows"} ELSE OperationSummaries)
                /\ (task[c].fn = "write" /\ CatsOf(task[c].sql) = {}) =>
                     task[c].entry = "executeWriteQuery"

\* executeWriteQuery, called directly with a select, has committed and
\* returned a success envelope whose first item is the serialized result.
C23_Witness ==
  \E c \in Tasks :
    /\ ReturnedEnvelope(c) /\ task[c].fn = "write" /\ task[c].sql = "select"
    /\ ~task[c].result.isError /\ Did(c, "COMMIT", TRUE)
    /\ task[c].result.content = << "rows", "Query execution time" >>

\* The pairs of a permissions string as the format describes them: name,
\* colon, value. A pair is well formed when it has a colon and neither the
\* text before it nor the text after it (up to a further colon) is empty.
PairsOf(permissionsString) ==
  IF permissionsString.defined /\ permissionsString.text # << >>
    THEN SplitOn(permissionsString.text, ",") ELSE << >>
PairName(pair) == SplitOn(pair, ":")[1]
PairValue(pair) == SplitOn(pair, ":")[2]
WellFormed(pair) ==
  /\ Len(SplitOn(pair, ":")) >= 2
  /\ PairName(pair) # << >>
  /\ PairValue(pair) # << >>

\* The map the format describes: the trimmed name of each well-formed pair,
\* mapped to whether the trimmed value of the last such pair is "true".
ExpectedPermissions(permissionsString) ==
  LET pairs == PairsOf(permissionsString)
      W == { i \in 1..Len(pairs) : WellFormed(pairs[i]) }
      key(i) == TextOf(Trim(PairName(pairs[i])))
      last(k) == CHOOSE i \in W : key(i) = k /\ \A j \in W : key(j) = k => j <= i
  IN [k \in { key(i) : i \in W } |-> TextOf(Trim(PairValue(pairs[last(k)]))) = "true"]

\* C24 (as claimed): parseSchemaPermissions maps a string of comma-separated
\* name:bool pairs to the map in which each well-formed pair contributes
\* trim(name) -> (trim(value) = "true"), the later pair winning when a name
\* occurs twice; a pair with no colon, an empty name or an empty value is
\* skipped and leaves the other pairs unaffected; an absent or empty string
\* gives the empty map.
C24_ParsedPermissionsAreThePairs ==
  probe.cat = "parsed" =>
    probe.result = ExpectedPermissions(probe.schema)

\* C25 (as claimed): in remote mode a POST /mcp request is passed to the MCP
\* server only if its Authorization header is exactly "Bearer " followed by
\* REMOTE_SECRET_KEY; every other request (no header, another scheme, any
\* other token) is answered with 401.
C25_OnlyExactBearerKeyPasses ==
  probe.cat = "post" =>
    (probe.result = "handleRequest" <=>
       (probe.schema.defined /\ probe.schema.text = << "Bearer " >> \o REMOTE_SECRET_KEY))

\* The database of the session a pooled connection opens: config.database,
\* which is connectionStringConfig.database || process.env.MYSQL_DB ||
\* undefined; the value is not trimmed, so a blank name is kept.
SessionDatabase == dbFromEnvOrConnString

\* What the statements of a text write to once executed: the category and
\* the schema of each written table, an unqualified table being in the
\* session's database.
Target(cat, schema) == [cat |-> cat, schema |-> schema]
WriteTargets(q) ==
  CASE q = "insert_dev"         -> { Target("insert", "dev") }
    [] q = "insert_delete_dev"  -> { Target("insert", "dev"), Target("delete", "dev") }
    [] q = "use_prod_insert"    -> { Target("insert", "dev") }
    [] q = "update_unqualified" -> { Target("update", SessionDatabase) }
    [] q = "drop_prod"          -> { Target("ddl", "prod") }
    [] q = "insert_constructor" -> { Target("insert", "constructor") }
    [] q = "insert_prod"        -> { Target("insert", "prod") }
    [] OTHER                    -> {}

\* C26 (as claimed): every insert, update, delete or ddl statement the
\* server executes and commits targets a schema for which the policy allows
\* that category: the schema the permission was evaluated against is the
\* schema the statement writes to.
C26_CommittedWritesAreAllowedOnTarget ==
  \A c \in Tasks :
    ( /\ task[c].entry = "executeReadOnlyQuery"
      /\ Did(c, "EXEC", TRUE) /\ Did(c, "COMMIT", TRUE) )
    => \A t \in WriteTargets(task[c].sql) :
         /\ extractSchemaFromQuery(task[c].sql) = t.schema
         /\ PolicyAllows(t.cat, t.schema)

\* C27 (as claimed): the read path, which has no permission gate, is
\* reached only by pure-read batches: a statement is executed on it only if
\* every statement kind of the batch is select; no statement of another
\* kind, one outside the write/ddl kinds included, is executed without a
\* permission decision.
C27_ReadPathRunsOnlySelects ==
  \A c \in Tasks :
    (task[c].entry = "executeReadOnlyQuery" /\ task[c].fn = "read" /\ Issued(c, "EXEC")) =>
      RangeOf(getQueryTypes(task[c].sql)) \subseteq {"select"}

\* C28 (as claimed): whenever executeWriteQuery returns an envelope with
\* isError=true the transaction of the call was not committed, and whenever
\* it committed the envelope has isError=false, for every text, also when
\* the function is called directly.
C28_ErrorEnvelopeMeansNotCommitted ==
  \A c \in Tasks :
    (task[c].fn = "write" /\ Settled(c) /\ task[c].result.kind = "envelope") =>
      /\ task[c].result.isError => ~Did(c, "COMMIT", TRUE)
      /\ Did(c, "COMMIT", TRUE) => ~task[c].result.isError

\* C29 (as claimed): in stateless HTTP mode each POST /mcp request has its
\* own transport and its own server instance: with requests in flight
\* concurrently, connecting or closing the transport and server of one
\* request never disconnects, closes or otherwise affects the handling of
\* another. A request being handled is served by a server connected to its
\* own transport and is never aborted by the close of another request.
C29_RequestsAreIsolated ==
  \A r \in Requests :
    /\ proc.request[r] = "handling" => proc.mcpServer.transport = r
    /\ proc.request[r] # "aborted"

\* C30 (as claimed): a connection string takes precedence over the
\* individual environment variables: each of host, port, user, password,
\* database and socket path is the value MYSQL_CONNECTION_STRING gives when
\* it gives one, else the MYSQL_* variable, else the default; a host or
\* port given in the connection string is the one used even when
\* MYSQL_SOCKET_PATH is set in the environment.
C30_ConnectionStringTakesPrecedence ==
  (probe.cat = "config" /\ ~probe.result.error) =>
    LET cs == connectionStringConfig(probe.schema.MYSQL_CONNECTION_STRING)
        e == probe.schema.environment
        mysql == probe.result
    IN /\ mysql.user = OrElse(cs.user, OrElse(e.MYSQL_USER, "root"))
       /\ mysql.password = (IF cs.password # Null THEN cs.password
                            ELSE IF e.MYSQL_PASS # Null THEN e.MYSQL_PASS ELSE "")
       /\ mysql.database = OrElse(cs.database, e.MYSQL_DB)
       /\ cs.socketPath # Null => mysql.socketPath = cs.socketPath
       /\ (cs.socketPath = Null /\ (cs.host # Null \/ cs.port # Null)) =>
            /\ mysql.socketPath = Null
            /\ mysql.host = OrElse(cs.host, OrElse(e.MYSQL_HOST, "127.0.0.1"))
            /\ mysql.port = OrElse(cs.port, OrElse(e.MYSQL_PORT, "3306"))
       /\ (cs.socketPath = Null /\ cs.host = Null /\ cs.port = Null) =>
            IF e.MYSQL_SOCKET_PATH # Null
              THEN mysql.socketPath = e.MYSQL_SOCKET_PATH
              ELSE /\ mysql.host = OrElse(e.MYSQL_HOST, "127.0.0.1")
                   /\ mysql.port = OrElse(e.MYSQL_PORT, "3306")

====
